---- MODULE Spec2Model ----
(***************************************************************************)
(* Model of the server-side core of the services_manger monitoring        *)
(* dashboard: the in-memory rate limiter (lib/rate-limit), the credential  *)
(* verifier (lib/auth), the SQLite store (lib/database) and the API route  *)
(* handlers that compose them.                                             *)
(*                                                                         *)
(* Conventions                                                             *)
(*   - time is Date.now() in milliseconds (variable now);                  *)
(*   - percentages are kept in tenths of a percent (900 is 90.0%), so that *)
(*     89.9 / 90.0 / 94.9 / 95.0 are distinct integers;                    *)
(*   - strings that the code parses (the Authorization header, disk paths) *)
(*     are sequences of symbols; all other strings are TLA+ strings;       *)
(*   - the store is one record db whose fields are the tables; a database  *)
(*     function f(args) of lib/database is an operator f(d, args) that     *)
(*     returns the store after the call, so a handler is the composition   *)
(*     of the calls it makes, in the order the code makes them.            *)
(***************************************************************************)
EXTENDS Integers, Sequences, FiniteSets, TLC

VARIABLES
    now,            \* Date.now(), ms
    rateMap,        \* rate-limit: Map<ip, {count, resetTime}>
    db,             \* the SQLite store: one field per table
    cleanupCounter, \* metrics/live route: module-level counter
    resp,           \* the response of the last request handled
    rl,             \* the value returned by the last checkRateLimit call
    win,            \* history: per ip, the call that opened the current window
    allowedLog,     \* history: per ip, how many calls were allowed at each time
    cycle,          \* history: the last checkThresholds call and what it found
    hist,           \* history: what polls returned, what sweeps and writes ran
    flight          \* the requests whose handler awaits the body of its request

vars == <<now, rateMap, db, cleanupCounter, resp, rl, win, allowedLog, cycle, hist, flight>>

(***************************************************************************)
(* Rate limiter (lib/rate-limit)                                           *)
(***************************************************************************)
WINDOW_MS == 60000
MAX_REQUESTS == 120

\* Client addresses (the x-forwarded-for / x-real-ip header, or 'unknown').
IPs == {"10.0.0.1", "unknown"}

\* How far past MAX_REQUESTS a window's counter is followed.
MaxOver == 1

\* The instants at which calls are made: a window's opening, its last
\* instant (now = resetTime still belongs to it) and the first one after it.
Times == {0, WINDOW_MS, WINDOW_MS + 1, 2 * WINDOW_MS + 1}

EmptyMap == [k \in {} |-> 0]

MapSet(m, k, v) == [x \in DOMAIN m \cup {k} |-> IF x = k THEN v ELSE m[x]]

MapDelete(m, ks) == [x \in DOMAIN m \ ks |-> m[x]]

\* Variants of checkRateLimit that a correct budget must tell apart from it:
\* one rejects the call that reaches the budget, one keeps counting when the
\* window has ended.
checkRateLimit_rejectsAtBudget(m, t, ip) ==
    IF ip \notin DOMAIN m \/ t > m[ip].resetTime
    THEN [map |-> MapSet(m, ip, [count |-> 1, resetTime |-> t + WINDOW_MS]),
          allowed |-> TRUE, remaining |-> MAX_REQUESTS - 1]
    ELSE LET c == m[ip].count + 1
             m2 == [m EXCEPT ![ip].count = c]
         IN  IF c >= MAX_REQUESTS
             THEN [map |-> m2, allowed |-> FALSE, remaining |-> 0]
             ELSE [map |-> m2, allowed |-> TRUE, remaining |-> MAX_REQUESTS - c]

checkRateLimit_keepsCount(m, t, ip) ==
    IF ip \notin DOMAIN m
    THEN [map |-> MapSet(m, ip, [count |-> 1, resetTime |-> t + WINDOW_MS]),
          allowed |-> TRUE, remaining |-> MAX_REQUESTS - 1]
    ELSE LET c == m[ip].count + 1
             m2 == IF t > m[ip].resetTime
                   THEN [m EXCEPT ![ip] = [count |-> c, resetTime |-> t + WINDOW_MS]]
                   ELSE [m EXCEPT ![ip].count = c]
         IN  IF c > MAX_REQUESTS
             THEN [map |-> m2, allowed |-> FALSE, remaining |-> 0]
             ELSE [map |-> m2, allowed |-> TRUE, remaining |-> MAX_REQUESTS - c]

\* checkRateLimit(ip) at time t on the map m: the map after the call and the
\* returned {allowed, remaining}.
checkRateLimit(m, t, ip) ==
    IF ip \notin DOMAIN m \/ t > m[ip].resetTime
    THEN [map |-> MapSet(m, ip, [count |-> 1, resetTime |-> t + WINDOW_MS]),
          allowed |-> TRUE, remaining |-> MAX_REQUESTS - 1]
    ELSE LET c == m[ip].count + 1
             m2 == [m EXCEPT ![ip].count = c]
         IN  IF c > MAX_REQUESTS
             THEN [map |-> m2, allowed |-> FALSE, remaining |-> 0]
             ELSE [map |-> m2, allowed |-> TRUE, remaining |-> MAX_REQUESTS - c]

\* The interval of the eviction sweep.
SWEEP_MS == 300000

\* A sweep that also evicts the keys whose window ends at this instant.
evictStale_atReset(m, t) ==
    [ip \in {k \in DOMAIN m : ~(t >= m[k].resetTime)} |-> m[ip]]

\* The setInterval callback at time t: it deletes the entries whose reset
\* time has passed.
evictStale(m, t) ==
    [ip \in {k \in DOMAIN m : ~(t > m[k].resetTime)} |-> m[ip]]

\* The counter of ip as a caller would find it (0: no entry).
CountOf(m, ip) == IF ip \in DOMAIN m THEN m[ip].count ELSE 0

\* The model follows a counter up to MAX_REQUESTS + MaxOver within a window.
WithinModel(m, ip) == CountOf(m, ip) < MAX_REQUESTS + MaxOver

\* rl before any call. Besides the returned value, rl keeps the call's place
\* in history: its key, its time, its number n within its window and the
\* counter it found (prev).
NoResult ==
    [ip |-> "", allowed |-> TRUE, remaining |-> 0, n |-> 0, at |-> 0, prev |-> 0]

\* History of the window of ip: the time of the call that opened it and the
\* number of calls made since, that call included. A call opens a window
\* when the key has none or the previous one ended (60 s after it opened).
WinAfter(w, t, ip) ==
    IF ip \notin DOMAIN w \/ t > w[ip].start + WINDOW_MS
    THEN MapSet(w, ip, [start |-> t, calls |-> 1])
    ELSE [w EXCEPT ![ip].calls = @ + 1]

\* One call of checkRateLimit(ip), without the log of allowed calls.
RateCall(ip) ==
    /\ \/ WithinModel(rateMap, ip)
       \/ ip \in DOMAIN rateMap /\ now > rateMap[ip].resetTime
    /\ LET r == checkRateLimit(rateMap, now, ip)
           w == WinAfter(win, now, ip)
       IN  /\ rateMap' = r.map
           /\ win' = w
           /\ rl' = [ip |-> ip, allowed |-> r.allowed, remaining |-> r.remaining,
                     n |-> w[ip].calls, at |-> now,
                     prev |-> CountOf(rateMap, ip)]
    /\ UNCHANGED <<now, db, cleanupCounter, resp, cycle, hist, flight>>

CheckRateLimit(ip) == RateCall(ip) /\ UNCHANGED allowedLog

\* The same call, with the allowed calls logged per key and time.
LogAfter(lg, t, ip) ==
    LET mine == IF ip \in DOMAIN lg THEN lg[ip] ELSE EmptyMap
        sofar == IF t \in DOMAIN mine THEN mine[t] ELSE 0
    IN  MapSet(lg, ip, MapSet(mine, t, sofar + 1))

LoggedCheckRateLimit(ip) ==
    /\ RateCall(ip)
    /\ allowedLog' = IF rl'.allowed THEN LogAfter(allowedLog, now, ip)
                     ELSE allowedLog

(***************************************************************************)
(* The store (lib/database)                                                *)
(***************************************************************************)

\* SQL NULL in a numeric or time column, and an absent (undefined) number
\* of a JSON payload.
NULL == -1

\* SQL NULL in a text column.
NullText == "<null>"

\* datetime('now'): UTC text with a resolution of one second; the texts
\* order as the seconds do.
SqlNow(t) == t \div 1000

\* The ids uuidv4() may return and the keys registerServer may mint.
NodeIds == {"n1", "n2"}
Keys == {"k1", "k2"}

\* The text of an atomic name, as a sequence of symbols.
Str(x) == <<x>>

\* bcryptjs.hashSync(key, 10) and bcryptjs.compareSync(key, hash): a salted
\* one-way hash that only the hashed key matches.
hashSync(key) == <<"bcrypt", key>>

compareSync(key, hash) == hashSync(key) = hash

\* JSON.stringify and JSON.parse of a JSON value.
JsonStringify(v) == <<"json", v>>

JsonParse(text) == text[2]

\* The settings initializeDatabase inserts.
DefaultSettings ==
    [alert_email_enabled |-> "false", alert_email_to |-> "",
     alert_email_smtp_host |-> "", alert_email_smtp_port |-> "587",
     stale_threshold_minutes |-> "60", data_retention_days |-> "30",
     dashboard_refresh_seconds |-> "30"]

\* The store after getDb() has created it: the tables are empty. seq holds,
\* per AUTOINCREMENT table, the last rowid given out; minted holds the ids
\* uuidv4() has returned, which it does not return again.
InitDb ==
    [servers |-> EmptyMap,
     metrics |-> {}, processes |-> {}, services |-> {}, live_metrics |-> {},
     alerts |-> {}, notifications |-> {}, agent_pending_config |-> {},
     settings |-> DefaultSettings,
     seq |-> [metrics |-> 0, processes |-> 0, services |-> 0,
              live_metrics |-> 0, alerts |-> 0, notifications |-> 0,
              agent_pending_config |-> 0],
     minted |-> {}]

\* registerServer(hostname, ipAddress, osInfo), where uuidv4() returned id
\* and then the hex of apiKey. The column defaults are those of the schema
\* (thresholds of 90.0%).
registerServer(d, t, id, apiKey, hostname, ipAddress, osInfo) ==
    [d EXCEPT
       !.servers = MapSet(@, id,
           [hostname |-> hostname, ip_address |-> ipAddress, os_info |-> osInfo,
            api_key_hash |-> hashSync(Str(apiKey)),
            group_name |-> "Default", display_name |-> hostname,
            notes |-> NullText,
            alert_cpu_threshold |-> 900, alert_memory_threshold |-> 900,
            alert_disk_threshold |-> 900,
            collection_interval |-> 10, is_active |-> 1,
            registered_at |-> SqlNow(t), last_seen_at |-> NULL]),
       !.minted = @ \cup {id}]

\* A verifier that does not look at is_active.
validateApiKey_anyNode(d, serverId, apiKey) ==
    \E id \in DOMAIN d.servers :
        /\ Str(id) = serverId
        /\ compareSync(apiKey, d.servers[id].api_key_hash)

\* validateApiKey(serverId, apiKey): both are the texts cut out of the token.
validateApiKey(d, serverId, apiKey) ==
    \E id \in DOMAIN d.servers :
        /\ Str(id) = serverId
        /\ d.servers[id].is_active = 1
        /\ compareSync(apiKey, d.servers[id].api_key_hash)

\* updateLastSeen(serverId)
updateLastSeen(d, t, serverId) ==
    IF serverId \in DOMAIN d.servers
    THEN [d EXCEPT !.servers[serverId].last_seen_at = SqlNow(t)]
    ELSE d

\* getServer(serverId): the row, or none.
HasServer(d, serverId) == serverId \in DOMAIN d.servers

\* updateServer(serverId, updates): updates is the request body, a map from
\* field names to values.
AllowedFields ==
    {"display_name", "group_name", "notes", "alert_cpu_threshold",
     "alert_memory_threshold", "alert_disk_threshold", "collection_interval",
     "is_active"}

\* An update that writes every column the body names.
updateServer_anyField(d, serverId, updates) ==
    IF DOMAIN updates = {} \/ serverId \notin DOMAIN d.servers
    THEN d
    ELSE [d EXCEPT !.servers[serverId] =
             [f \in DOMAIN @ |-> IF f \in DOMAIN updates THEN updates[f] ELSE @[f]]]

updateServer(d, serverId, updates) ==
    LET fields == DOMAIN updates \cap AllowedFields
    IN  IF fields = {} \/ serverId \notin DOMAIN d.servers
        THEN d
        ELSE [d EXCEPT !.servers[serverId] =
                 [f \in DOMAIN @ |-> IF f \in fields THEN updates[f] ELSE @[f]]]

\* A delete without foreign keys: only the row of the server goes.
deleteServer_noCascade(d, serverId) ==
    [d EXCEPT !.servers = MapDelete(@, {serverId})]

\* deleteServer(serverId): foreign_keys = ON, so the delete cascades to the
\* rows that reference the server, and from its alerts to their
\* notifications (a notification without alert_id references nothing).
deleteServer(d, serverId) ==
    LET gone == {a.id : a \in {x \in d.alerts : x.server_id = serverId}}
        Keep(rows) == {r \in rows : r.server_id # serverId}
    IN  [d EXCEPT
           !.servers = MapDelete(@, {serverId}),
           !.metrics = Keep(@), !.processes = Keep(@), !.services = Keep(@),
           !.live_metrics = Keep(@), !.alerts = Keep(@),
           !.agent_pending_config = Keep(@),
           !.notifications = {n \in @ : n.alert_id \notin gone}]

\* insertMetrics(serverId, data); the columns the model keeps are those the
\* alert engine and the queries read.
insertMetrics(d, t, serverId, data) ==
    LET id == d.seq.metrics + 1
    IN  [d EXCEPT
           !.seq.metrics = id,
           !.metrics = @ \cup
              {[id |-> id, server_id |-> serverId, timestamp |-> SqlNow(t),
                cpu_percent |-> data.cpu_percent,
                memory_percent |-> data.memory_percent,
                disk_info |-> data.disk_info]}]

\* insertProcesses(serverId, processes): one transaction, a row per entry.
RECURSIVE insertProcesses(_, _, _, _)
insertProcesses(d, t, serverId, procs) ==
    IF procs = <<>> THEN d
    ELSE LET id == d.seq.processes + 1
             d2 == [d EXCEPT
                      !.seq.processes = id,
                      !.processes = @ \cup
                         {[id |-> id, server_id |-> serverId,
                           timestamp |-> SqlNow(t),
                           pid |-> Head(procs).pid, name |-> Head(procs).name,
                           cpu_percent |-> Head(procs).cpu_percent]}]
         IN  insertProcesses(d2, t, serverId, Tail(procs))

\* insertProcesses when the clock reads ts[i] as the i-th INSERT of the
\* transaction runs: the timestamp of a row is the DEFAULT of its column,
\* datetime('now') of its own statement.
RECURSIVE insertProcessesAt(_, _, _, _)
insertProcessesAt(d, ts, serverId, procs) ==
    IF procs = <<>> THEN d
    ELSE insertProcessesAt(insertProcesses(d, Head(ts), serverId, <<Head(procs)>>),
                           Tail(ts), serverId, Tail(procs))

\* getLatestProcesses(serverId, limit): the rows of the node at its greatest
\* timestamp, the limit of them with the highest cpu_percent (kept as a
\* set; which of several equal rows LIMIT keeps is SQLite's choice).
getLatestProcesses(d, serverId, limit) ==
    LET own == {r \in d.processes : r.server_id = serverId}
        latest == {r \in own : \A q \in own : q.timestamp <= r.timestamp}
    IN  IF Cardinality(latest) <= limit THEN latest
        ELSE CHOOSE top \in SUBSET latest :
                /\ Cardinality(top) = limit
                /\ \A r \in top, q \in latest \ top :
                      r.cpu_percent >= q.cpu_percent

\* insertServices(serverId, services): one transaction, a row per entry.
RECURSIVE insertServices(_, _, _, _)
insertServices(d, t, serverId, svcs) ==
    IF svcs = <<>> THEN d
    ELSE LET id == d.seq.services + 1
             d2 == [d EXCEPT
                      !.seq.services = id,
                      !.services = @ \cup
                         {[id |-> id, server_id |-> serverId,
                           timestamp |-> SqlNow(t),
                           service_name |-> Head(svcs).service_name,
                           status |-> Head(svcs).status]}]
         IN  insertServices(d2, t, serverId, Tail(svcs))

\* insertServices when the clock reads ts[i] as the i-th INSERT runs.
RECURSIVE insertServicesAt(_, _, _, _)
insertServicesAt(d, ts, serverId, svcs) ==
    IF svcs = <<>> THEN d
    ELSE insertServicesAt(insertServices(d, Head(ts), serverId, <<Head(svcs)>>),
                          Tail(ts), serverId, Tail(svcs))

\* A query for the row of the node inserted last.
getLatestServices_newestRow(d, serverId) ==
    LET own == {r \in d.services : r.server_id = serverId}
    IN  {r \in own : \A q \in own : q.id <= r.id}

\* getLatestServices(serverId): the rows of the node at its greatest
\* timestamp.
getLatestServices(d, serverId) ==
    LET own == {r \in d.services : r.server_id = serverId}
    IN  {r \in own : \A q \in own : q.timestamp <= r.timestamp}

\* insertLiveMetrics(serverId, data)
insertLiveMetrics(d, t, serverId, data) ==
    LET id == d.seq.live_metrics + 1
    IN  [d EXCEPT
           !.seq.live_metrics = id,
           !.live_metrics = @ \cup
              {[id |-> id, server_id |-> serverId, timestamp |-> SqlNow(t),
                cpu_percent |-> data.cpu_percent,
                memory_percent |-> data.memory_percent,
                swap_percent |-> data.swap_percent,
                process_count |-> data.process_count,
                thread_count |-> data.thread_count]}]

\* cleanupLiveMetrics(retentionMinutes)
cleanupLiveMetrics(d, t, retentionMinutes) ==
    [d EXCEPT !.live_metrics =
        {r \in @ : ~(r.timestamp < SqlNow(t) - retentionMinutes * 60)}]

\* getLiveMetrics(serverId, minutes): the samples of the node no older than
\* the window (the model keeps them as a set).
getLiveMetrics(d, t, serverId, minutes) ==
    {r \in d.live_metrics :
        r.server_id = serverId /\ r.timestamp >= SqlNow(t) - minutes * 60}

\* SQL's aggregates over the values of a column in a set of rows; over no
\* row MIN, MAX and AVG are NULL. AVG is kept exact, as <<sum, count>>, and
\* its NULL is <<>>.
RECURSIVE SumOf(_, _)
SumOf(rows, col) ==
    IF rows = {} THEN 0
    ELSE LET r == CHOOSE x \in rows : TRUE
         IN  r[col] + SumOf(rows \ {r}, col)

MinOf(rows, col) ==
    IF rows = {} THEN NULL
    ELSE (CHOOSE r \in rows : \A q \in rows : r[col] <= q[col])[col]

MaxOf(rows, col) ==
    IF rows = {} THEN NULL
    ELSE (CHOOSE r \in rows : \A q \in rows : r[col] >= q[col])[col]

AvgOf(rows, col) ==
    IF rows = {} THEN <<>> ELSE <<SumOf(rows, col), Cardinality(rows)>>

\* The row of aggregates getLiveBenchmark selects.
Benchmark(rows) ==
    [sample_count |-> Cardinality(rows),
     cpu_min |-> MinOf(rows, "cpu_percent"),
     cpu_max |-> MaxOf(rows, "cpu_percent"),
     cpu_avg |-> AvgOf(rows, "cpu_percent"),
     mem_min |-> MinOf(rows, "memory_percent"),
     mem_max |-> MaxOf(rows, "memory_percent"),
     mem_avg |-> AvgOf(rows, "memory_percent"),
     swap_min |-> MinOf(rows, "swap_percent"),
     swap_max |-> MaxOf(rows, "swap_percent"),
     swap_avg |-> AvgOf(rows, "swap_percent"),
     proc_min |-> MinOf(rows, "process_count"),
     proc_max |-> MaxOf(rows, "process_count"),
     proc_avg |-> AvgOf(rows, "process_count"),
     thread_min |-> MinOf(rows, "thread_count"),
     thread_max |-> MaxOf(rows, "thread_count"),
     thread_avg |-> AvgOf(rows, "thread_count")]

\* A benchmark over every sample of the node, whatever its age.
getLiveBenchmark_noWindow(d, t, serverId, minutes) ==
    Benchmark({r \in d.live_metrics : r.server_id = serverId})

\* getLiveBenchmark(serverId, minutes)
getLiveBenchmark(d, t, serverId, minutes) ==
    Benchmark({r \in d.live_metrics :
                 r.server_id = serverId
                 /\ r.timestamp >= SqlNow(t) - minutes * 60})

(***************************************************************************)
(* Alerts and notifications (lib/database)                                 *)
(***************************************************************************)

\* An alert insert that forgets the notification.
createAlert_noNotification(d, t, serverId, alertType, severity, message, metricValue, thresholdValue) ==
    LET aid == d.seq.alerts + 1
    IN  [d EXCEPT
           !.seq.alerts = aid,
           !.alerts = @ \cup
              {[id |-> aid, server_id |-> serverId, timestamp |-> SqlNow(t),
                alert_type |-> alertType, severity |-> severity,
                message |-> message, metric_value |-> metricValue,
                threshold_value |-> thresholdValue,
                is_acknowledged |-> 0, acknowledged_at |-> NULL]}]

\* createAlert(serverId, alertType, severity, message, metricValue,
\* thresholdValue): the alert row, then its in-app notification.
createAlert(d, t, serverId, alertType, severity, message, metricValue, thresholdValue) ==
    LET aid == d.seq.alerts + 1
        nid == d.seq.notifications + 1
    IN  [d EXCEPT
           !.seq.alerts = aid,
           !.seq.notifications = nid,
           !.alerts = @ \cup
              {[id |-> aid, server_id |-> serverId, timestamp |-> SqlNow(t),
                alert_type |-> alertType, severity |-> severity,
                message |-> message, metric_value |-> metricValue,
                threshold_value |-> thresholdValue,
                is_acknowledged |-> 0, acknowledged_at |-> NULL]},
           !.notifications = @ \cup
              {[id |-> nid, alert_id |-> aid, timestamp |-> SqlNow(t),
                channel |-> "in_app", message |-> message, is_read |-> 0]}]

\* getActiveAlerts(serverId?): the unacknowledged alerts, joined with their
\* servers; serverId "" stands for the call without argument.
getActiveAlerts(d, serverId) ==
    {a \in d.alerts : /\ a.server_id \in DOMAIN d.servers
                      /\ serverId # "" => a.server_id = serverId
                      /\ a.is_acknowledged = 0}

\* An acknowledgment that flips the flag, and one that also marks the
\* alert's notifications read.
acknowledgeAlert_toggles(d, t, alertId) ==
    [d EXCEPT !.alerts =
        {IF a.id = alertId
         THEN [a EXCEPT !.is_acknowledged = 1 - @, !.acknowledged_at = SqlNow(t)]
         ELSE a : a \in @}]

acknowledgeAlert_readsToo(d, t, alertId) ==
    [d EXCEPT
       !.alerts =
          {IF a.id = alertId
           THEN [a EXCEPT !.is_acknowledged = 1, !.acknowledged_at = SqlNow(t)]
           ELSE a : a \in @},
       !.notifications =
          {IF n.alert_id = alertId THEN [n EXCEPT !.is_read = 1] ELSE n : n \in @}]

\* acknowledgeAlert(alertId)
acknowledgeAlert(d, t, alertId) ==
    [d EXCEPT !.alerts =
        {IF a.id = alertId
         THEN [a EXCEPT !.is_acknowledged = 1, !.acknowledged_at = SqlNow(t)]
         ELSE a : a \in @}]

\* markNotificationRead(notificationId)
markNotificationRead(d, notificationId) ==
    [d EXCEPT !.notifications =
        {IF n.id = notificationId THEN [n EXCEPT !.is_read = 1] ELSE n : n \in @}]

\* markAllNotificationsRead()
markAllNotificationsRead(d) ==
    [d EXCEPT !.notifications =
        {IF n.is_read = 0 THEN [n EXCEPT !.is_read = 1] ELSE n : n \in @}]

\* Number.prototype.toFixed(1) of a value kept in tenths: the digits before
\* and after the point.
ToFixed1(v) == [int |-> v \div 10, frac |-> v % 10]

\* The severity both rules give a value that reached its threshold.
CRITICAL_AT == 950

\* A severity rule that asks for more than 95.
Severity_above(v) == IF v > CRITICAL_AT THEN "critical" ELSE "warning"

Severity(v) == IF v >= CRITICAL_AT THEN "critical" ELSE "warning"

\* The template literals of the three alert messages.
AlertMessage(what, mount, v, threshold) ==
    [what |-> what, mount |-> mount, at |-> ToFixed1(v), threshold |-> threshold]

\* String.prototype.toLowerCase on the file system names in use.
toLowerCase(text) ==
    CASE text = "TMPFS" -> "tmpfs"
      [] text = "NTFS" -> "ntfs"
      [] OTHER -> text

\* String.prototype.startsWith on texts kept as sequences of symbols.
startsWith(text, prefix) ==
    /\ Len(prefix) <= Len(text)
    /\ SubSeq(text, 1, Len(prefix)) = prefix

virtualFsTypes ==
    {"squashfs", "tmpfs", "devtmpfs", "overlay", "aufs", "iso9660", "ramfs"}

skipMountPrefixes ==
    {<<"/", "snap", "/">>, <<"/", "sys", "/">>, <<"/", "proc", "/">>,
     <<"/", "run", "/">>, <<"/", "dev", "/">>}

skipDevicePrefixes == {<<"/", "dev", "/", "loop">>}

\* A skip rule that does not look at the device.
SkippedDisk_anyDevice(disk) ==
    \/ disk.fstype # "" /\ toLowerCase(disk.fstype) \in virtualFsTypes
    \/ disk.mountpoint # <<>>
         /\ \E p \in skipMountPrefixes : startsWith(disk.mountpoint, p)

\* The three continue tests of checkThresholds' disk loop (isRealDisk of
\* lib/utils is their negation). An absent or empty field is falsy: "" for
\* fstype, <<>> for the two paths.
SkippedDisk(disk) ==
    \/ disk.fstype # "" /\ toLowerCase(disk.fstype) \in virtualFsTypes
    \/ disk.mountpoint # <<>>
         /\ \E p \in skipMountPrefixes : startsWith(disk.mountpoint, p)
    \/ disk.device # <<>>
         /\ \E p \in skipDevicePrefixes : startsWith(disk.device, p)

\* The disk loop of checkThresholds over the parsed list.
RECURSIVE CheckDisks(_, _, _, _, _)
CheckDisks(d, t, serverId, disks, diskThreshold) ==
    IF disks = <<>> THEN d
    ELSE LET disk == Head(disks)
             d2 == IF ~SkippedDisk(disk) /\ disk.percent # NULL
                      /\ disk.percent >= diskThreshold
                   THEN createAlert(d, t, serverId, "disk",
                            Severity(disk.percent),
                            AlertMessage("Disk", disk.mountpoint, disk.percent,
                                         diskThreshold),
                            disk.percent, diskThreshold)
                   ELSE d
         IN  CheckDisks(d2, t, serverId, Tail(disks), diskThreshold)

\* checkThresholds(serverId, cpuPercent, memoryPercent, diskInfo)
checkThresholds(d, t, serverId, cpuPercent, memoryPercent, diskInfo) ==
    IF serverId \notin DOMAIN d.servers THEN d
    ELSE LET server == d.servers[serverId]
             cpuThreshold == server.alert_cpu_threshold
             memThreshold == server.alert_memory_threshold
             diskThreshold == server.alert_disk_threshold
             d1 == IF cpuPercent >= cpuThreshold
                   THEN createAlert(d, t, serverId, "cpu", Severity(cpuPercent),
                            AlertMessage("CPU usage", <<>>, cpuPercent,
                                         cpuThreshold),
                            cpuPercent, cpuThreshold)
                   ELSE d
             d2 == IF memoryPercent >= memThreshold
                   THEN createAlert(d1, t, serverId, "memory",
                            Severity(memoryPercent),
                            AlertMessage("Memory usage", <<>>, memoryPercent,
                                         memThreshold),
                            memoryPercent, memThreshold)
                   ELSE d1
         IN  CheckDisks(d2, t, serverId, JsonParse(diskInfo), diskThreshold)

\* cleanupOldData(retentionDays): the five deletes, then the live sweep.
\* Deleting an alert cascades to its notifications.
cleanupOldData(d, t, retentionDays) ==
    LET limit == SqlNow(t) - retentionDays * 86400
        Old(r) == r.timestamp < limit
        goneAlerts == {a \in d.alerts : Old(a) /\ a.is_acknowledged = 1}
        goneIds == {a.id : a \in goneAlerts}
        d1 == [d EXCEPT
                 !.metrics = {r \in @ : ~Old(r)},
                 !.processes = {r \in @ : ~Old(r)},
                 !.services = {r \in @ : ~Old(r)},
                 !.alerts = @ \ goneAlerts,
                 !.notifications =
                    {n \in @ : /\ n.alert_id \notin goneIds
                               /\ ~(Old(n) /\ n.is_read = 1)}]
    IN  cleanupLiveMetrics(d1, t, 60)

(***************************************************************************)
(* Pending agent configuration (lib/database)                              *)
(***************************************************************************)

\* A push that leaves a key alone while it has an unapplied item: the first
\* value pushed stays until it is confirmed.
RECURSIVE setPendingConfig_keepsFirst(_, _, _, _)
setPendingConfig_keepsFirst(d, t, serverId, configs) ==
    IF configs = <<>> THEN d
    ELSE LET id == d.seq.agent_pending_config + 1
             held == \E r \in d.agent_pending_config :
                        /\ r.server_id = serverId
                        /\ r.config_key = Head(configs)[1]
                        /\ r.applied_at = NULL
             d2 == IF held THEN d
                   ELSE [d EXCEPT
                      !.seq.agent_pending_config = id,
                      !.agent_pending_config = @ \cup
                         {[id |-> id, server_id |-> serverId,
                           config_key |-> Head(configs)[1],
                           config_value |-> JsonStringify(Head(configs)[2]),
                           created_at |-> SqlNow(t), applied_at |-> NULL]}]
         IN  setPendingConfig_keepsFirst(d2, t, serverId, Tail(configs))

\* A push that inserts without clearing the unapplied item of the key.
RECURSIVE setPendingConfig_noClear(_, _, _, _)
setPendingConfig_noClear(d, t, serverId, configs) ==
    IF configs = <<>> THEN d
    ELSE LET id == d.seq.agent_pending_config + 1
             d2 == [d EXCEPT
                      !.seq.agent_pending_config = id,
                      !.agent_pending_config = @ \cup
                         {[id |-> id, server_id |-> serverId,
                           config_key |-> Head(configs)[1],
                           config_value |-> JsonStringify(Head(configs)[2]),
                           created_at |-> SqlNow(t), applied_at |-> NULL]}]
         IN  setPendingConfig_noClear(d2, t, serverId, Tail(configs))

\* setPendingConfig(serverId, configs): configs is the object's entries in
\* their order; one transaction.
RECURSIVE setPendingConfig(_, _, _, _)
setPendingConfig(d, t, serverId, configs) ==
    IF configs = <<>> THEN d
    ELSE LET key == Head(configs)[1]
             value == Head(configs)[2]
             id == d.seq.agent_pending_config + 1
             cleared == {r \in d.agent_pending_config :
                            ~(/\ r.server_id = serverId
                              /\ r.config_key = key
                              /\ r.applied_at = NULL)}
             d2 == [d EXCEPT
                      !.seq.agent_pending_config = id,
                      !.agent_pending_config = cleared \cup
                         {[id |-> id, server_id |-> serverId,
                           config_key |-> key,
                           config_value |-> JsonStringify(value),
                           created_at |-> SqlNow(t), applied_at |-> NULL]}]
         IN  setPendingConfig(d2, t, serverId, Tail(configs))

\* getPendingConfig(serverId): the key -> value object built from the
\* unapplied rows, as a set of <<key, value>>; {} stands for null. Rows of
\* one key would overwrite each other in (created_at, rowid) order.
Unapplied(d, serverId) ==
    {r \in d.agent_pending_config :
        r.server_id = serverId /\ r.applied_at = NULL}

getPendingConfig(d, serverId) ==
    LET rows == Unapplied(d, serverId)
        Later(r, q) == \/ q.created_at > r.created_at
                       \/ q.created_at = r.created_at /\ q.id > r.id
    IN  {<<r.config_key, JsonParse(r.config_value)>> :
            r \in {x \in rows :
                     ~\E q \in rows : q.config_key = x.config_key /\ Later(x, q)}}

\* A confirm that stamps only the oldest unapplied item of the node.
markConfigApplied_oldest(d, t, serverId) ==
    [d EXCEPT !.agent_pending_config =
        {IF /\ r.server_id = serverId /\ r.applied_at = NULL
            /\ \A q \in @ : (q.server_id = serverId /\ q.applied_at = NULL)
                               => r.id <= q.id
         THEN [r EXCEPT !.applied_at = SqlNow(t)]
         ELSE r : r \in @}]

\* A confirm that stamps every item of the node, applied or not.
markConfigApplied_restamps(d, t, serverId) ==
    [d EXCEPT !.agent_pending_config =
        {IF r.server_id = serverId
         THEN [r EXCEPT !.applied_at = SqlNow(t)]
         ELSE r : r \in @}]

\* markConfigApplied(serverId)
markConfigApplied(d, t, serverId) ==
    [d EXCEPT !.agent_pending_config =
        {IF r.server_id = serverId /\ r.applied_at = NULL
         THEN [r EXCEPT !.applied_at = SqlNow(t)]
         ELSE r : r \in @}]

(***************************************************************************)
(* Credential verifier (lib/auth)                                          *)
(***************************************************************************)

\* String.prototype.indexOf of one symbol: its first position, or 0 where
\* the code gets -1.
indexOf(text, sym) ==
    IF \E i \in 1..Len(text) : text[i] = sym
    THEN CHOOSE i \in 1..Len(text) :
            text[i] = sym /\ \A j \in 1..(i - 1) : text[j] # sym
    ELSE 0

\* authenticateRequest(request): the Authorization header is a scheme ("" when
\* the header is absent) and, after it, the token. Returns {serverId}, or
\* null (ok = FALSE).
AuthNull == [ok |-> FALSE, serverId |-> <<>>]

authenticateRequest(d, hdr) ==
    IF hdr.scheme # "Bearer " THEN AuthNull
    ELSE LET token == hdr.token
             separatorIndex == indexOf(token, ":")
             serverId == SubSeq(token, 1, separatorIndex - 1)
             apiKey == SubSeq(token, separatorIndex + 1, Len(token))
         IN  IF separatorIndex = 0 THEN AuthNull
             ELSE IF serverId = <<>> \/ apiKey = <<>> THEN AuthNull
             ELSE IF validateApiKey(d, serverId, apiKey)
                  THEN [ok |-> TRUE, serverId |-> serverId]
                  ELSE AuthNull

\* The row key that an authenticated serverId text names.
IdOf(d, serverId) == CHOOSE id \in DOMAIN d.servers : Str(id) = serverId

(***************************************************************************)
(* Route handlers. A handler is an operator from the state it reads and    *)
(* its request to an outcome: the state it leaves and its response.        *)
(***************************************************************************)

\* A response: its status, its error text ("" when it has none) and the
\* data of its body as a set of <<name, value>>; ep names the handler.
Response(ep, status, error, data) ==
    [ep |-> ep, status |-> status, error |-> error, data |-> data]

NoResponse == Response("", 0, "", {})

RateLimited(ep) == Response(ep, 429, "Rate limit exceeded", {})

Unauthorized(ep) == Response(ep, 401, "Unauthorized", {})

Forbidden(ep) == Response(ep, 403, "Forbidden", {})

Outcome(m, d, c, r) == [rateMap |-> m, db |-> d, cleanupCounter |-> c, resp |-> r]

\* value ?? dflt on a number of the payload.
Nullish(value, dflt) == IF value = NULL THEN dflt ELSE value

\* POST /api/register; id and apiKey are what uuidv4() returns.
registerPOST(m, d, c, t, ip, body, id, apiKey) ==
    LET limit == checkRateLimit(m, t, ip)
    IN  IF ~limit.allowed THEN Outcome(limit.map, d, c, RateLimited("register"))
        ELSE IF body.hostname = ""
        THEN Outcome(limit.map, d, c,
                     Response("register", 400, "hostname is required", {}))
        ELSE Outcome(limit.map,
                     registerServer(d, t, id, apiKey, body.hostname,
                                    body.ip_address, body.os_info),
                     c,
                     Response("register", 201, "",
                              {<<"server_id", id>>, <<"api_key", apiKey>>}))

\* A metrics handler that verifies the credential before it consults the
\* rate limiter.
metricsPOST_authFirst(m, d, c, t, ip, hdr, body) ==
    LET limit == checkRateLimit(m, t, ip)
        auth == authenticateRequest(d, hdr)
    IN  IF ~auth.ok THEN Outcome(m, d, c, Unauthorized("metrics"))
        ELSE IF ~limit.allowed
        THEN Outcome(limit.map, d, c, RateLimited("metrics"))
        ELSE Outcome(limit.map, updateLastSeen(d, t, IdOf(d, auth.serverId)), c,
                     Response("metrics", 200, "", {}))

\* POST /api/metrics; body.metrics is <<>> or <<the metrics object>>, and
\* processes and services are lists (empty when absent).
metricsPOST(m, d, c, t, ip, hdr, body) ==
    LET limit == checkRateLimit(m, t, ip)
        auth == authenticateRequest(d, hdr)
    IN  IF ~limit.allowed THEN Outcome(limit.map, d, c, RateLimited("metrics"))
        ELSE IF ~auth.ok THEN Outcome(limit.map, d, c, Unauthorized("metrics"))
        ELSE LET serverId == IdOf(d, auth.serverId)
                 d1 == IF body.metrics = <<>> THEN d
                       ELSE LET metrics == body.metrics[1]
                                cpu == Nullish(metrics.cpu_percent, 0)
                                mem == Nullish(metrics.memory_percent, 0)
                                disks == JsonStringify(metrics.disks)
                            IN  checkThresholds(
                                    insertMetrics(d, t, serverId,
                                        [cpu_percent |-> cpu,
                                         memory_percent |-> mem,
                                         disk_info |-> disks]),
                                    t, serverId, cpu, mem, disks)
                 d2 == insertProcesses(d1, t, serverId, body.processes)
                 d3 == insertServices(d2, t, serverId, body.services)
             IN  Outcome(limit.map, updateLastSeen(d3, t, serverId), c,
                         Response("metrics", 200, "", {}))

\* POST /api/metrics/live
CLEANUP_EVERY == 100

livePOST(m, d, c, t, ip, hdr, body) ==
    LET limit == checkRateLimit(m, t, ip)
        auth == authenticateRequest(d, hdr)
    IN  IF ~limit.allowed THEN Outcome(limit.map, d, c, RateLimited("live"))
        ELSE IF ~auth.ok THEN Outcome(limit.map, d, c, Unauthorized("live"))
        ELSE LET serverId == IdOf(d, auth.serverId)
                 d1 == insertLiveMetrics(d, t, serverId,
                          [cpu_percent |-> Nullish(body.cpu_percent, 0),
                           memory_percent |-> Nullish(body.memory_percent, 0),
                           swap_percent |-> Nullish(body.swap_percent, 0),
                           process_count |-> Nullish(body.process_count, 0),
                           thread_count |-> Nullish(body.thread_count, 0)])
                 d2 == updateLastSeen(d1, t, serverId)
                 ok == Response("live", 200, "", {})
             IN  IF c + 1 >= CLEANUP_EVERY
                 THEN Outcome(limit.map, cleanupLiveMetrics(d2, t, 60), 0, ok)
                 ELSE Outcome(limit.map, d2, c + 1, ok)

\* A ping that draws on the budget of the address "unknown".
pingPOST_limited(m, d, c, t, hdr) ==
    LET limit == checkRateLimit(m, t, "unknown")
        auth == authenticateRequest(d, hdr)
    IN  IF ~limit.allowed THEN Outcome(limit.map, d, c, RateLimited("ping"))
        ELSE IF ~auth.ok THEN Outcome(limit.map, d, c, Unauthorized("ping"))
        ELSE Outcome(limit.map, updateLastSeen(d, t, IdOf(d, auth.serverId)), c,
                     Response("ping", 200, "", {}))

\* POST /api/metrics/live up to its await of the body: the rate limiter,
\* then the credential. The outcome is a response, or the request goes on
\* (resp is NoResponse) for the node auth names.
liveBegin(m, d, c, t, ip, hdr) ==
    LET limit == checkRateLimit(m, t, ip)
        auth == authenticateRequest(d, hdr)
    IN  IF ~limit.allowed THEN Outcome(limit.map, d, c, RateLimited("live"))
        ELSE IF ~auth.ok THEN Outcome(limit.map, d, c, Unauthorized("live"))
        ELSE Outcome(limit.map, d, c, NoResponse)

InternalError(ep) == Response(ep, 500, "Internal server error", {})

\* POST /api/metrics/live from the INSERT that succeeded to the response.
liveStored(m, d, c, t, serverId, body) ==
         LET d1 == insertLiveMetrics(d, t, serverId,
                      [cpu_percent |-> Nullish(body.cpu_percent, 0),
                       memory_percent |-> Nullish(body.memory_percent, 0),
                       swap_percent |-> Nullish(body.swap_percent, 0),
                       process_count |-> Nullish(body.process_count, 0),
                       thread_count |-> Nullish(body.thread_count, 0)])
             d2 == updateLastSeen(d1, t, serverId)
             ok == Response("live", 200, "", {})
         IN  IF c + 1 >= CLEANUP_EVERY
             THEN Outcome(m, cleanupLiveMetrics(d2, t, 60), 0, ok)
             ELSE Outcome(m, d2, c + 1, ok)

\* A live route that ticks its counter before it stores the sample.
liveStore_ticksFirst(m, d, c, t, serverId, body) ==
    IF ~HasServer(d, serverId)
    THEN Outcome(m, d, (c + 1) % CLEANUP_EVERY, InternalError("live"))
    ELSE liveStored(m, d, c, t, serverId, body)

\* POST /api/metrics/live once the body is read: the code runs to its end
\* without another await. The INSERT of a sample for a node that is gone
\* fails on its foreign key, and the catch answers 500 before the counter
\* is touched.
liveStore(m, d, c, t, serverId, body) ==
    IF ~HasServer(d, serverId)
    THEN Outcome(m, d, c, InternalError("live"))
    ELSE liveStored(m, d, c, t, serverId, body)

\* POST /api/metrics up to its await of the body: the rate limiter, then
\* the credential.
metricsBegin(m, d, c, t, ip, hdr) ==
    LET limit == checkRateLimit(m, t, ip)
        auth == authenticateRequest(d, hdr)
    IN  IF ~limit.allowed THEN Outcome(limit.map, d, c, RateLimited("metrics"))
        ELSE IF ~auth.ok THEN Outcome(limit.map, d, c, Unauthorized("metrics"))
        ELSE Outcome(limit.map, d, c, NoResponse)

\* POST /api/metrics from the read body to the response when no statement
\* throws.
metricsStored(m, d, c, t, serverId, body) ==
    LET d1 == IF body.metrics = <<>> THEN d
              ELSE LET metrics == body.metrics[1]
                       cpu == Nullish(metrics.cpu_percent, 0)
                       mem == Nullish(metrics.memory_percent, 0)
                       disks == JsonStringify(metrics.disks)
                   IN  checkThresholds(
                           insertMetrics(d, t, serverId,
                               [cpu_percent |-> cpu,
                                memory_percent |-> mem,
                                disk_info |-> disks]),
                           t, serverId, cpu, mem, disks)
        d2 == insertProcesses(d1, t, serverId, body.processes)
        d3 == insertServices(d2, t, serverId, body.services)
    IN  Outcome(m, updateLastSeen(d3, t, serverId), c,
                Response("metrics", 200, "", {}))

\* A metrics route on a store that does not enforce its foreign keys.
metricsStore_noForeignKey(m, d, c, t, serverId, body) ==
    metricsStored(m, d, c, t, serverId, body)

\* POST /api/metrics once the body is read; the code runs to its end
\* without another await. For a node that is gone, the first INSERT the
\* body calls for fails on its foreign key and the catch answers 500, the
\* statement (or the transaction of the batch) rolled back; a body that
\* calls for none reaches updateLastSeen, whose UPDATE matches no row, and
\* the response is 200.
metricsStore(m, d, c, t, serverId, body) ==
    IF /\ ~HasServer(d, serverId)
       /\ (body.metrics # <<>> \/ body.processes # <<>> \/ body.services # <<>>)
    THEN Outcome(m, d, c, InternalError("metrics"))
    ELSE metricsStored(m, d, c, t, serverId, body)

\* POST /api/ping
pingPOST(m, d, c, t, hdr) ==
    LET auth == authenticateRequest(d, hdr)
    IN  IF ~auth.ok THEN Outcome(m, d, c, Unauthorized("ping"))
        ELSE Outcome(m, updateLastSeen(d, t, IdOf(d, auth.serverId)), c,
                     Response("ping", 200, "", {}))

\* A poll handler without the scope check, and a confirm handler that marks
\* the queue applied before it makes the check.
configGET_unscoped(m, d, c, hdr, serverId) ==
    LET auth == authenticateRequest(d, hdr)
    IN  IF ~auth.ok THEN Outcome(m, d, c, Unauthorized("poll"))
        ELSE Outcome(m, d, c,
                     Response("poll", 200, "", getPendingConfig(d, serverId)))

configPOST_marksFirst(m, d, c, t, hdr, serverId) ==
    LET auth == authenticateRequest(d, hdr)
        marked == markConfigApplied(d, t, serverId)
    IN  IF ~auth.ok THEN Outcome(m, d, c, Unauthorized("confirm"))
        ELSE IF auth.serverId # Str(serverId)
        THEN Outcome(m, marked, c, Forbidden("confirm"))
        ELSE Outcome(m, marked, c, Response("confirm", 200, "", {}))

\* GET /api/agent/config/[serverId]: the agent polls its pending config.
configGET(m, d, c, hdr, serverId) ==
    LET auth == authenticateRequest(d, hdr)
    IN  IF ~auth.ok THEN Outcome(m, d, c, Unauthorized("poll"))
        ELSE IF auth.serverId # Str(serverId)
        THEN Outcome(m, d, c, Forbidden("poll"))
        ELSE Outcome(m, d, c,
                     Response("poll", 200, "", getPendingConfig(d, serverId)))

\* POST /api/agent/config/[serverId]: the agent confirms it applied it.
configPOST(m, d, c, t, hdr, serverId) ==
    LET auth == authenticateRequest(d, hdr)
    IN  IF ~auth.ok THEN Outcome(m, d, c, Unauthorized("confirm"))
        ELSE IF auth.serverId # Str(serverId)
        THEN Outcome(m, d, c, Forbidden("confirm"))
        ELSE Outcome(m, markConfigApplied(d, t, serverId), c,
                     Response("confirm", 200, "", {}))

\* POST /api/dashboard/server/[id]/config: the dashboard pushes config; the
\* body's config is the list of its entries (empty when absent or empty).
allowedKeys ==
    {"collection_interval_minutes", "top_processes_count",
     "monitored_services", "auto_discover_services", "live_enabled",
     "live_interval_seconds", "live_retention_minutes", "collect_processes",
     "collect_disks", "collect_network", "ping_enabled", "log_level"}

\* A filter that lets every key through.
filterKeys_all(config) == config

filterKeys(config) == SelectSeq(config, LAMBDA e : e[1] \in allowedKeys)

Entries(config) == {config[i] : i \in 1..Len(config)}

pushConfigPOST(m, d, c, t, id, config) ==
    IF ~HasServer(d, id)
    THEN Outcome(m, d, c, Response("push", 404, "Server not found", {}))
    ELSE IF config = <<>>
    THEN Outcome(m, d, c, Response("push", 400, "No config provided", {}))
    ELSE LET filtered == filterKeys(config)
         IN  IF filtered = <<>>
             THEN Outcome(m, d, c,
                     Response("push", 400, "No valid config keys provided", {}))
             ELSE Outcome(m, setPendingConfig(d, t, id, filtered), c,
                     Response("push", 200, "", Entries(filtered)))

\* The push of config up to its await of the body: the lookup of the node.
pushConfigBegin(m, d, c, id) ==
    IF ~HasServer(d, id)
    THEN Outcome(m, d, c, Response("push", 404, "Server not found", {}))
    ELSE Outcome(m, d, c, NoResponse)

\* The push of config once the body is read: for a node that is gone the
\* first INSERT of setPendingConfig fails on its foreign key, the
\* transaction is rolled back and the catch answers 500.
pushConfigStore(m, d, c, t, id, config) ==
    IF config = <<>>
    THEN Outcome(m, d, c, Response("push", 400, "No config provided", {}))
    ELSE LET filtered == filterKeys(config)
         IN  IF filtered = <<>>
             THEN Outcome(m, d, c,
                     Response("push", 400, "No valid config keys provided", {}))
             ELSE IF ~HasServer(d, id)
             THEN Outcome(m, d, c, InternalError("push"))
             ELSE Outcome(m, setPendingConfig(d, t, id, filtered), c,
                     Response("push", 200, "", Entries(filtered)))

\* getServer(id) of a node that exists and getAllServers(): SELECT * returns
\* every column of the row.
getServer(d, serverId) == [id |-> serverId] @@ d.servers[serverId]

getAllServers(d) ==
    {getServer(d, id) : id \in {k \in DOMAIN d.servers : d.servers[k].is_active = 1}}

\* GET /api/dashboard/server/[id]: the lookup of a node; of the body the
\* model keeps its server member, the row of the node.
serverGET(m, d, c, id) ==
    IF ~HasServer(d, id)
    THEN Outcome(m, d, c, Response("lookup", 404, "Server not found", {}))
    ELSE Outcome(m, d, c,
            Response("lookup", 200, "", {<<"server", getServer(d, id)>>}))

\* GET /api/dashboard: each entry of servers spreads the row of an active
\* node (...server) and adds status, metrics and the alert counts; of the
\* body the model keeps the spread rows.
dashboardGET(m, d, c) ==
    Outcome(m, d, c,
        Response("dashboard", 200, "", {<<"servers", getAllServers(d)>>}))

\* GET /api/dashboard/server/[id]/live with its minutes and benchmark
\* parameters.
liveGET(m, d, c, t, id, minutes, benchmarkMinutes) ==
    IF ~HasServer(d, id)
    THEN Outcome(m, d, c, Response("liveview", 404, "Server not found", {}))
    ELSE Outcome(m, d, c,
            Response("liveview", 200, "",
                {<<"metrics", getLiveMetrics(d, t, id, minutes)>>,
                 <<"benchmark", getLiveBenchmark(d, t, id, benchmarkMinutes)>>,
                 <<"server_id", id>>,
                 <<"minutes", minutes>>,
                 <<"benchmark_minutes", benchmarkMinutes>>}))

\* PATCH and DELETE /api/dashboard/server/[id]
serverPATCH(m, d, c, id, body) ==
    Outcome(m, updateServer(d, id, body), c, Response("update", 200, "", {}))

serverDELETE(m, d, c, id) ==
    Outcome(m, deleteServer(d, id), c, Response("delete", 200, "", {}))

(***************************************************************************)
(* Requests                                                                *)
(***************************************************************************)

\* Rows a table may receive: the bound on each AUTOINCREMENT counter.
MaxRows == 1

Fits(d) == \A tbl \in DOMAIN d.seq : d.seq[tbl] <= MaxRows

\* Authorization headers: absent, another scheme, and Bearer tokens without
\* separator, with an empty side, of a known or unknown node, with a key
\* that may or may not be the node's, with a second separator.
Bearer(token) == [scheme |-> "Bearer ", token |-> token]

Headers ==
    {[scheme |-> "", token |-> <<>>],
     [scheme |-> "Basic ", token |-> <<"n1", ":", "k1">>],
     Bearer(<<>>), Bearer(<<"n1">>), Bearer(<<":", "k1">>), Bearer(<<"n1", ":">>),
     Bearer(<<"n1", ":", "k1">>), Bearer(<<"n1", ":", "k2">>),
     Bearer(<<"n2", ":", "k1">>), Bearer(<<"n2", ":", "k2">>),
     Bearer(<<"nx", ":", "k1">>), Bearer(<<"n1", ":", "k1", ":", "k1">>)}

\* The headers agents send with their data: none, or a token of the right
\* form whose key may or may not be the node's.
AgentHeaders ==
    {[scheme |-> "", token |-> <<>>]}
    \cup {Bearer(<<id, ":", key>>) : id \in NodeIds, key \in Keys}

\* The serverId of a route: a registered id or not.
RouteIds == NodeIds \cup {"nx"}

RegisterBodies ==
    {[hostname |-> h, ip_address |-> "", os_info |-> ""] : h \in {"", "web-1"}}

HotMetrics == [cpu_percent |-> 950, memory_percent |-> NULL, disks |-> <<>>]

MetricsBodies ==
    {[metrics |-> <<>>, processes |-> <<>>, services |-> <<>>],
     [metrics |-> <<HotMetrics>>, processes |-> <<>>, services |-> <<>>],
     [metrics |-> <<>>, processes |-> <<[pid |-> 1, name |-> "init", cpu_percent |-> 10]>>,
      services |-> <<[service_name |-> "sshd", status |-> "running"]>>]}

LiveBodies ==
    {[cpu_percent |-> 500, memory_percent |-> NULL, swap_percent |-> NULL,
      process_count |-> 100, thread_count |-> NULL]}

PushConfigs ==
    {<<>>, <<<<"bogus", "1">>>>, <<<<"log_level", "DEBUG">>>>,
     <<<<"log_level", "INFO">>, <<"bogus", "1">>>>}

ActiveUpdates == {[f \in {"is_active"} |-> v] : v \in {0, 1}}

\* The state a handler leaves. The history variables of the rate limiter
\* and of the alert engine follow their own specifications only.
Apply(o) ==
    /\ Fits(o.db)
    /\ rateMap' = o.rateMap
    /\ db' = o.db
    /\ cleanupCounter' = o.cleanupCounter
    /\ resp' = o.resp
    /\ UNCHANGED <<now, rl, win, allowedLog, cycle, hist, flight>>

RegisterPOST(ip, body, id, apiKey) ==
    LET o == registerPOST(rateMap, db, cleanupCounter, now, ip, body, id, apiKey)
    IN  /\ WithinModel(rateMap, ip)
        /\ o.resp.status = 201 => id \notin db.minted
        /\ Apply(o)

MetricsPOST(ip, hdr, body) ==
    /\ WithinModel(rateMap, ip)
    /\ Apply(metricsPOST(rateMap, db, cleanupCounter, now, ip, hdr, body))

LivePOST(ip, hdr, body) ==
    /\ WithinModel(rateMap, ip)
    /\ Apply(livePOST(rateMap, db, cleanupCounter, now, ip, hdr, body))

PingPOST(hdr) == Apply(pingPOST(rateMap, db, cleanupCounter, now, hdr))

ConfigGET(hdr, serverId) ==
    Apply(configGET(rateMap, db, cleanupCounter, hdr, serverId))

ConfigPOST(hdr, serverId) ==
    Apply(configPOST(rateMap, db, cleanupCounter, now, hdr, serverId))

PushConfigPOST(id, config) ==
    Apply(pushConfigPOST(rateMap, db, cleanupCounter, now, id, config))

ServerPATCH(id, body) == Apply(serverPATCH(rateMap, db, cleanupCounter, id, body))

ServerDELETE(id) == Apply(serverDELETE(rateMap, db, cleanupCounter, id))

\* Time passes.
Tick == /\ \E t \in Times : t > now /\ now' = t
        /\ UNCHANGED <<rateMap, db, cleanupCounter, resp, rl, win, allowedLog,
                       cycle, hist, flight>>

NoCycle ==
    [n |-> 0, known |-> FALSE, serverId |-> "", cpu |-> 0, mem |-> 0, disks |-> <<>>,
     before |-> 0,
     cpuThreshold |-> 0, memThreshold |-> 0, diskThreshold |-> 0]

\* hist before any step: the ids of the pending items a poll has returned,
\* the rate limiter's map as it would be had no sweep run, the requests
\* begun, the sweeps of live samples the live route has run, and the batches of process and service rows written (the
\* table, the node and the first and last id of each).
NoHist ==
    [polled |-> {}, shadow |-> EmptyMap, begun |-> 0, sweeps |-> 0,
     batches |-> {}]

\* No request is in flight.
NoFlight == {}


(***************************************************************************)
(* Specifications                                                          *)
(***************************************************************************)

\* The state after the modules are loaded and the store is created.
Init ==
    /\ now = 0
    /\ rateMap = EmptyMap
    /\ db = InitDb
    /\ cleanupCounter = 0
    /\ resp = NoResponse
    /\ rl = NoResult
    /\ win = EmptyMap
    /\ allowedLog = EmptyMap
    /\ cycle = NoCycle
    /\ hist = NoHist
    /\ flight = NoFlight

\* The rate limiter alone, called for two addresses as time passes.
NextRateLimit == (\E ip \in IPs : CheckRateLimit(ip)) \/ Tick

SpecRateLimit == Init /\ [][NextRateLimit]_vars

\* The limiter of one address, with the log of its allowed calls, at three
\* instants: the opening of a window, its last millisecond and the next one.
SlidingTimes == {0, WINDOW_MS, WINDOW_MS + 1}

TickSliding ==
    /\ \E t \in SlidingTimes : t > now /\ now' = t
    /\ UNCHANGED <<rateMap, db, cleanupCounter, resp, rl, win, allowedLog, cycle, hist, flight>>

NextSliding == LoggedCheckRateLimit("10.0.0.1") \/ TickSliding

SpecSliding == Init /\ [][NextSliding]_vars

\* The API as nodes and the dashboard call it; ping is called with every
\* header shape. How many calls of the current window an address has left
\* when the specification starts:
Headroom == 1

\* Every address has made MAX_REQUESTS - Headroom calls since time 0, all of
\* them registrations without hostname, which the handler answers with 400
\* before it touches the store.
InitSystem ==
    /\ now = 0
    /\ rateMap = [ip \in IPs |->
                    [count |-> MAX_REQUESTS - Headroom, resetTime |-> WINDOW_MS]]
    /\ db = InitDb
    /\ cleanupCounter = 0
    /\ resp = Response("register", 400, "hostname is required", {})
    /\ rl = NoResult
    /\ win = EmptyMap
    /\ allowedLog = EmptyMap
    /\ cycle = NoCycle
    /\ hist = NoHist
    /\ flight = NoFlight

Next ==
    \/ \E ip \in IPs, body \in RegisterBodies, id \in NodeIds, apiKey \in Keys :
          RegisterPOST(ip, body, id, apiKey)
    \/ \E ip \in IPs, hdr \in AgentHeaders, body \in MetricsBodies :
          MetricsPOST(ip, hdr, body)
    \/ \E ip \in IPs, hdr \in AgentHeaders, body \in LiveBodies :
          LivePOST(ip, hdr, body)
    \/ \E hdr \in Headers : PingPOST(hdr)
    \/ \E hdr \in AgentHeaders, serverId \in RouteIds : ConfigGET(hdr, serverId)
    \/ \E hdr \in AgentHeaders, serverId \in RouteIds : ConfigPOST(hdr, serverId)
    \/ \E id \in RouteIds, config \in PushConfigs : PushConfigPOST(id, config)
    \/ \E id \in NodeIds, body \in ActiveUpdates : ServerPATCH(id, body)

Spec == InitSystem /\ [][Next]_vars

(***************************************************************************)
(* The alert engine on its own                                             *)
(***************************************************************************)

\* Alerts the store may receive in the specifications of the alert engine.
MaxAlerts == 3

\* Calls of checkThresholds in one behaviour.
MaxCycles == 2

sda == <<"/", "dev", "/", "sda1">>

Disk(device, mountpoint, fstype, percent) ==
    [device |-> device, mountpoint |-> mountpoint, fstype |-> fstype,
     percent |-> percent]

data91 == Disk(sda, <<"/", "data">>, "ext4", 910)

\* Disk entries: real ones around the thresholds, one of each virtual file
\* system, one under each skipped mount prefix, a loop device, and entries
\* that only resemble those.
DiskSamples ==
    {data91,
     Disk(sda, <<"/", "data">>, "ext4", 899),
     Disk(sda, <<"/", "data">>, "ext4", 900),
     Disk(sda, <<"/">>, "ext4", 950),
     Disk(sda, <<"/", "snap">>, "ext4", 990),
     Disk(sda, <<"/", "devices">>, "ext4", 990),
     Disk(<<>>, <<"/", "data">>, "", 949),
     Disk(<<"C:">>, <<"C:", "\\">>, "NTFS", 960),
     Disk(<<"tmpfs">>, <<"/", "mnt">>, "TMPFS", 990),
     Disk(<<"/", "dev", "/", "loop", "0">>, <<"/", "mnt">>, "ext4", 990)}
    \cup {Disk(<<fs>>, <<"/", "mnt">>, fs, 990) : fs \in virtualFsTypes}
    \cup {Disk(sda, p \o <<"x">>, "ext4", 990) : p \in skipMountPrefixes}

DiskLists ==
    {<<disk>> : disk \in DiskSamples}
    \cup {<<data91, Disk(sda, <<"/">>, "ext4", 950)>>, <<data91, data91>>,
          <<Disk(<<"tmpfs">>, <<"/", "run", "/", "x">>, "tmpfs", 990), data91>>}

Percents == {899, 900, 949, 950}

\* What a cycle hands to checkThresholds: values around the thresholds with
\* no disks, disk lists with idle cpu and memory, and all three at once.
CycleInputs ==
    {[cpu |-> v, mem |-> 0, disks |-> <<>>] : v \in Percents}
    \cup {[cpu |-> 0, mem |-> v, disks |-> <<>>] : v \in Percents}
    \cup {[cpu |-> 0, mem |-> 0, disks |-> l] : l \in DiskLists}
    \cup {[cpu |-> 950, mem |-> 900, disks |-> <<data91>>]}

\* The body of a PATCH that raises the three thresholds of a node.
ThresholdUpdates ==
    {[f \in {"alert_cpu_threshold", "alert_memory_threshold",
             "alert_disk_threshold"} |->
        CASE f = "alert_cpu_threshold" -> 960
          [] f = "alert_memory_threshold" -> 950
          [] OTHER -> 905]}

StoreStep(d) ==
    /\ d.seq.alerts <= MaxAlerts
    /\ db' = d
    /\ UNCHANGED <<now, rateMap, cleanupCounter, resp, rl, win, allowedLog,
                   hist, flight>>

\* registerServer(...) with a fresh id.
RegisterServer(id) ==
    /\ id \notin db.minted
    /\ StoreStep(registerServer(db, now, id, "k1", "web-1", "", ""))
    /\ UNCHANGED cycle

UpdateServer(id, updates) ==
    /\ HasServer(db, id)
    /\ StoreStep(updateServer(db, id, updates))
    /\ UNCHANGED cycle

\* checkThresholds(serverId, cpu, mem, JSON of the disks); cycle records the
\* call: its number, whether the node existed, its arguments, the last alert
\* id before it, and the thresholds the node had.
CheckThresholds(serverId, in) ==
    /\ cycle.n < MaxCycles
    /\ StoreStep(checkThresholds(db, now, serverId, in.cpu, in.mem,
                                 JsonStringify(in.disks)))
    /\ cycle' =
          [n |-> cycle.n + 1, known |-> HasServer(db, serverId),
           serverId |-> serverId, cpu |-> in.cpu, mem |-> in.mem,
           disks |-> in.disks, before |-> db.seq.alerts,
           cpuThreshold |-> IF HasServer(db, serverId)
                            THEN db.servers[serverId].alert_cpu_threshold ELSE 0,
           memThreshold |-> IF HasServer(db, serverId)
                            THEN db.servers[serverId].alert_memory_threshold ELSE 0,
           diskThreshold |-> IF HasServer(db, serverId)
                             THEN db.servers[serverId].alert_disk_threshold ELSE 0]

NextThresholds ==
    \/ \E id \in NodeIds : RegisterServer(id)
    \/ \E id \in NodeIds, updates \in ThresholdUpdates : UpdateServer(id, updates)
    \/ \E serverId \in RouteIds, in \in CycleInputs : CheckThresholds(serverId, in)

SpecThresholds == Init /\ [][NextThresholds]_vars

\* The life of alerts and notifications: cycles that raise them, the
\* dashboard acknowledging and reading them and changing thresholds, the
\* retention purge a day later, and the removal of a node.
AlertInputs ==
    {[cpu |-> 950, mem |-> 900, disks |-> <<>>],
     [cpu |-> 0, mem |-> 0, disks |-> <<data91>>]}

\* The retention the purge is called with, in days; the second instant is
\* one second past it.
RetentionDays == 1

AlertTimes == {0, RetentionDays * 86400000 + 1000}

AcknowledgeAlert(alertId) ==
    /\ StoreStep(acknowledgeAlert(db, now, alertId)) /\ UNCHANGED cycle

MarkNotificationRead(id) ==
    /\ StoreStep(markNotificationRead(db, id)) /\ UNCHANGED cycle

MarkAllNotificationsRead ==
    /\ StoreStep(markAllNotificationsRead(db)) /\ UNCHANGED cycle

CleanupOldData ==
    /\ StoreStep(cleanupOldData(db, now, RetentionDays)) /\ UNCHANGED cycle

DeleteServer(id) ==
    /\ HasServer(db, id)
    /\ StoreStep(deleteServer(db, id)) /\ UNCHANGED cycle

TickAlerts ==
    /\ \E t \in AlertTimes : t > now /\ now' = t
    /\ UNCHANGED <<rateMap, db, cleanupCounter, resp, rl, win, allowedLog, cycle, hist, flight>>

NextAlerts ==
    \/ \E id \in NodeIds : RegisterServer(id)
    \/ \E id \in NodeIds, updates \in ThresholdUpdates : UpdateServer(id, updates)
    \/ \E serverId \in NodeIds, in \in AlertInputs : CheckThresholds(serverId, in)
    \/ \E alertId \in 1..MaxAlerts : AcknowledgeAlert(alertId)
    \/ \E id \in 1..MaxAlerts : MarkNotificationRead(id)
    \/ MarkAllNotificationsRead
    \/ CleanupOldData
    \/ \E id \in NodeIds : DeleteServer(id)
    \/ TickAlerts

SpecAlerts == Init /\ [][NextAlerts]_vars

(***************************************************************************)
(* The configuration queue on its own                                      *)
(***************************************************************************)

\* Items the queue may receive in the specification of the queue.
MaxPending == 3

\* The config objects the dashboard pushes: one key, the same key with
\* another value, two keys, a key outside the allow-list alone and beside an
\* allow-listed one, and the empty object.
QueueConfigs ==
    {<<>>,
     <<<<"log_level", "DEBUG">>>>,
     <<<<"log_level", "INFO">>>>,
     <<<<"log_level", "INFO">>, <<"live_enabled", "true">>>>,
     <<<<"shell", "rm">>>>,
     <<<<"shell", "rm">>, <<"log_level", "DEBUG">>>>}

\* The credentials of the nodes RegisterServer creates.
QueueHeaders == {Bearer(<<id, ":", "k1">>) : id \in NodeIds}

\* The state a handler of the queue leaves.
QueueApply(o) ==
    /\ o.db.seq.agent_pending_config <= MaxPending
    /\ rateMap' = o.rateMap
    /\ db' = o.db
    /\ cleanupCounter' = o.cleanupCounter
    /\ resp' = o.resp
    /\ UNCHANGED <<now, rl, win, allowedLog, cycle, hist, flight>>

Push(id, config) ==
    QueueApply(pushConfigPOST(rateMap, db, cleanupCounter, now, id, config))

Poll(hdr, serverId) ==
    QueueApply(configGET(rateMap, db, cleanupCounter, hdr, serverId))

Confirm(hdr, serverId) ==
    QueueApply(configPOST(rateMap, db, cleanupCounter, now, hdr, serverId))

\* Pushes, polls and confirms in any order (handlers run to completion once
\* their request is read, so concurrent requests take effect one after the
\* other in either order), with the purge, the removal of a node and time.
NextConfig ==
    \/ \E id \in NodeIds : RegisterServer(id)
    \/ \E id \in RouteIds, config \in QueueConfigs : Push(id, config)
    \/ \E hdr \in QueueHeaders, serverId \in NodeIds : Poll(hdr, serverId)
    \/ \E hdr \in QueueHeaders, serverId \in NodeIds : Confirm(hdr, serverId)
    \/ CleanupOldData
    \/ \E id \in NodeIds : DeleteServer(id)
    \/ TickAlerts

SpecConfig == Init /\ [][NextConfig]_vars

(***************************************************************************)
(* The nodes and the rows they own                                         *)
(***************************************************************************)

\* Rows a table may receive in the specification of the nodes.
MaxHeld == 2

\* A report that leaves a row in every table a report writes: a metric
\* sample over the CPU threshold (an alert and its notification), a process
\* and a service.
FleetBody ==
    [metrics |-> <<HotMetrics>>,
     processes |-> <<[pid |-> 1, name |-> "init", cpu_percent |-> 10]>>,
     services |-> <<[service_name |-> "sshd", status |-> "running"]>>]

\* Bodies of PATCH: allow-listed fields alone, fields outside the
\* allow-list alone, and both together.
PatchBodies ==
    {[alert_cpu_threshold |-> 800, is_active |-> 0],
     [hostname |-> "evil", api_key_hash |-> hashSync(Str("k2"))],
     [notes |-> "moved", api_key_hash |-> hashSync(Str("k2")),
      last_seen_at |-> 7]}

FleetApply(o) ==
    /\ \A tbl \in DOMAIN o.db.seq : o.db.seq[tbl] <= MaxHeld
    /\ rateMap' = o.rateMap
    /\ db' = o.db
    /\ cleanupCounter' = o.cleanupCounter
    /\ resp' = o.resp
    /\ UNCHANGED <<now, rl, win, allowedLog, cycle, hist, flight>>

\* The agents of the nodes report with their credentials.
Report(hdr) ==
    /\ authenticateRequest(db, hdr).ok
    /\ FleetApply(metricsPOST(rateMap, db, cleanupCounter, now, "10.0.0.1", hdr,
                              FleetBody))

Live(hdr, body) ==
    /\ authenticateRequest(db, hdr).ok
    /\ FleetApply(livePOST(rateMap, db, cleanupCounter, now, "10.0.0.1", hdr,
                           body))

Queue(id, config) ==
    FleetApply(pushConfigPOST(rateMap, db, cleanupCounter, now, id, config))

Lookup(id) == FleetApply(serverGET(rateMap, db, cleanupCounter, id))

Patch(id, body) == FleetApply(serverPATCH(rateMap, db, cleanupCounter, id, body))

Delete(id) == FleetApply(serverDELETE(rateMap, db, cleanupCounter, id))

NextFleet ==
    \/ \E id \in NodeIds : RegisterServer(id)
    \/ \E hdr \in QueueHeaders : Report(hdr)
    \/ \E hdr \in QueueHeaders, body \in LiveBodies : Live(hdr, body)
    \/ \E id \in NodeIds : Queue(id, <<<<"log_level", "DEBUG">>>>)
    \/ \E id \in RouteIds : Lookup(id)
    \/ \E id \in RouteIds, body \in PatchBodies : Patch(id, body)
    \/ \E id \in RouteIds : Delete(id)

SpecFleet == Init /\ [][NextFleet]_vars

(***************************************************************************)
(* The secret of a node and the responses that follow its registration     *)
(***************************************************************************)

\* The credentials agents may present.
SecretHeaders == {Bearer(<<id, ":", k>>) : id \in NodeIds, k \in Keys}

\* POST /api/register of a host, uuidv4() returning a fresh id and apiKey.
Enroll(id, apiKey) ==
    /\ id \notin db.minted
    /\ FleetApply(registerPOST(rateMap, db, cleanupCounter, now, "10.0.0.1",
                     [hostname |-> "web-1", ip_address |-> "", os_info |-> ""],
                     id, apiKey))

Dashboard == FleetApply(dashboardGET(rateMap, db, cleanupCounter))

\* A node registers and reports; the dashboard lists, looks up, edits and
\* removes nodes.
NextSecret ==
    \/ \E id \in NodeIds, apiKey \in Keys : Enroll(id, apiKey)
    \/ \E hdr \in SecretHeaders : Report(hdr)
    \/ \E id \in RouteIds : Lookup(id)
    \/ Dashboard
    \/ \E id \in RouteIds, body \in PatchBodies : Patch(id, body)
    \/ \E id \in RouteIds : Delete(id)

SpecSecret == Init /\ [][NextSecret]_vars

(***************************************************************************)
(* Live samples and their benchmark                                        *)
(***************************************************************************)

\* Live samples the store may receive.
MaxSamples == 3

\* The samples agents send: CPU at 10%, 50% and 90%, the extremes of the
\* other columns falling on different samples.
LiveSamples ==
    {[cpu_percent |-> 100, memory_percent |-> 300, swap_percent |-> 0,
      process_count |-> 120, thread_count |-> 900],
     [cpu_percent |-> 500, memory_percent |-> 200, swap_percent |-> 50,
      process_count |-> 100, thread_count |-> 950],
     [cpu_percent |-> 900, memory_percent |-> 250, swap_percent |-> 20,
      process_count |-> 110, thread_count |-> 800]}

\* The window of the benchmark (the default) and that of the samples.
BenchmarkMinutes == 30

LiveMinutes == 5

\* A start, the last instant at which a sample of the start is within the
\* benchmark's window, and ten minutes later.
LiveTimes == {0, BenchmarkMinutes * 60000, (BenchmarkMinutes + 10) * 60000}

InsertLiveMetrics(id, data) ==
    /\ HasServer(db, id)
    /\ db.seq.live_metrics < MaxSamples
    /\ StoreStep(insertLiveMetrics(db, now, id, data))
    /\ UNCHANGED cycle

LiveGET(id) ==
    LET o == liveGET(rateMap, db, cleanupCounter, now, id, LiveMinutes,
                     BenchmarkMinutes)
    IN  /\ resp' = o.resp
        /\ UNCHANGED <<now, rateMap, db, cleanupCounter, rl, win, allowedLog,
                       cycle, hist, flight>>

TickLive ==
    /\ \E t \in LiveTimes : t > now /\ now' = t
    /\ UNCHANGED <<rateMap, db, cleanupCounter, resp, rl, win, allowedLog, cycle, hist, flight>>

NextLive ==
    \/ \E id \in NodeIds : RegisterServer(id)
    \/ \E id \in NodeIds, data \in LiveSamples : InsertLiveMetrics(id, data)
    \/ \E id \in RouteIds : LiveGET(id)
    \/ TickLive

SpecLive == Init /\ [][NextLive]_vars

(***************************************************************************)
(* The agent's poll and confirm against the dashboard's pushes             *)
(***************************************************************************)

\* The pushes that race with the agent.
RaceConfigs ==
    {<<<<"log_level", "DEBUG">>>>,
     <<<<"log_level", "INFO">>>>,
     <<<<"live_enabled", "true">>>>}

\* The agent of node id polls with its credential; hist keeps the ids of
\* the items the poll returned.
AgentPoll(id) ==
    LET o == configGET(rateMap, db, cleanupCounter, Bearer(<<id, ":", "k1">>), id)
    IN  /\ resp' = o.resp
        /\ hist' = IF o.resp.status = 200
                   THEN [hist EXCEPT
                           !.polled = @ \cup {r.id : r \in Unapplied(db, id)}]
                   ELSE hist
        /\ UNCHANGED <<now, rateMap, db, cleanupCounter, rl, win, allowedLog,
                       cycle, flight>>

AgentConfirm(id) == Confirm(Bearer(<<id, ":", "k1">>), id)

NextAck ==
    \/ \E id \in NodeIds : RegisterServer(id)
    \/ \E id \in NodeIds, config \in RaceConfigs : Push(id, config)
    \/ \E id \in NodeIds : AgentPoll(id)
    \/ \E id \in NodeIds : AgentConfirm(id)

SpecAck == Init /\ [][NextAck]_vars

(***************************************************************************)
(* Batches of process and service rows                                     *)
(***************************************************************************)

\* Rows the processes and the services table may receive.
MaxBatchRows == 3

\* The clock: two instants of one second and the first of the next.
BatchTimes == {0, 999, 1000}

\* The readings of the clock by the INSERTs of a batch of n rows that
\* starts no earlier than t: each no earlier than the one before.
ClockReadings(t, n) ==
    {ts \in [1..n -> BatchTimes] :
        /\ ts[1] >= t
        /\ \A i \in 1..(n - 1) : ts[i] <= ts[i + 1]}

ProcessBatches ==
    {<<[pid |-> 1, name |-> "init", cpu_percent |-> 10]>>,
     <<[pid |-> 1, name |-> "init", cpu_percent |-> 10],
       [pid |-> 7, name |-> "node", cpu_percent |-> 300]>>}

ServiceBatches ==
    {<<[service_name |-> "sshd", status |-> "running"]>>,
     <<[service_name |-> "sshd", status |-> "running"],
       [service_name |-> "cron", status |-> "stopped"]>>}

\* The limit the server detail passes to getLatestProcesses.
ProcessLimit == 15

\* A batch of tbl for node id that wrote the rows first..last.
BatchOf(tbl, id, first, last) ==
    [tbl |-> tbl, server_id |-> id, first |-> first, last |-> last]

InsertProcesses(id, procs, ts) ==
    /\ HasServer(db, id)
    /\ db.seq.processes + Len(procs) <= MaxBatchRows
    /\ db' = insertProcessesAt(db, ts, id, procs)
    /\ now' = ts[Len(ts)]
    /\ hist' = [hist EXCEPT !.batches = @ \cup
                  {BatchOf("processes", id, db.seq.processes + 1,
                           db.seq.processes + Len(procs))}]
    /\ UNCHANGED <<rateMap, cleanupCounter, resp, rl, win, allowedLog, cycle,
                   flight>>

InsertServices(id, svcs, ts) ==
    /\ HasServer(db, id)
    /\ db.seq.services + Len(svcs) <= MaxBatchRows
    /\ db' = insertServicesAt(db, ts, id, svcs)
    /\ now' = ts[Len(ts)]
    /\ hist' = [hist EXCEPT !.batches = @ \cup
                  {BatchOf("services", id, db.seq.services + 1,
                           db.seq.services + Len(svcs))}]
    /\ UNCHANGED <<rateMap, cleanupCounter, resp, rl, win, allowedLog, cycle,
                   flight>>

TickBatch ==
    /\ \E t \in BatchTimes : t > now /\ now' = t
    /\ UNCHANGED <<rateMap, db, cleanupCounter, resp, rl, win, allowedLog, cycle,
                   hist, flight>>

NextBatch ==
    \/ \E id \in NodeIds : RegisterServer(id)
    \/ \E id \in NodeIds, procs \in ProcessBatches :
          \E ts \in ClockReadings(now, Len(procs)) : InsertProcesses(id, procs, ts)
    \/ \E id \in NodeIds, svcs \in ServiceBatches :
          \E ts \in ClockReadings(now, Len(svcs)) : InsertServices(id, svcs, ts)
    \/ TickBatch

SpecBatch == Init /\ [][NextBatch]_vars

(***************************************************************************)
(* Live ingestion with requests in flight                                  *)
(***************************************************************************)

\* Requests that may await their body at once, and live requests begun.
MaxFlight == 2

MaxBegun == 5

\* How far from a sweep the route starts.
CleanupHeadroom == 2

\* The live samples stored before the first step: none, or a few short of
\* the first or of the second sweep (the samples themselves were purged
\* since, the rate limiter's keys evicted).
StoredBefore == {0, CLEANUP_EVERY - CleanupHeadroom, 2 * CLEANUP_EVERY - CleanupHeadroom}

\* After the sweep's retention of 60 minutes.
CleanupTimes == {0, 3601000}

InitCleanup ==
    /\ \E n \in StoredBefore :
          /\ db = [InitDb EXCEPT !.seq.live_metrics = n]
          /\ cleanupCounter = n % CLEANUP_EVERY
          /\ hist = [NoHist EXCEPT !.sweeps = n \div CLEANUP_EVERY]
    /\ now = 0
    /\ rateMap = EmptyMap
    /\ resp = NoResponse
    /\ rl = NoResult
    /\ win = EmptyMap
    /\ allowedLog = EmptyMap
    /\ cycle = NoCycle
    /\ flight = NoFlight

FreeSlots == {k \in 1..MaxFlight : \A f \in flight : f.slot # k}

\* A live request arrives and runs up to its await.
LiveBegin(slot, ip, hdr) ==
    LET o == liveBegin(rateMap, db, cleanupCounter, now, ip, hdr)
    IN  /\ slot \in FreeSlots
        /\ hist.begun < MaxBegun
        /\ rateMap' = o.rateMap
        /\ hist' = [hist EXCEPT !.begun = @ + 1]
        /\ IF o.resp = NoResponse
           THEN /\ flight' = flight \cup
                      {[slot |-> slot, ep |-> "live",
                        serverId |-> IdOf(db, authenticateRequest(db, hdr).serverId)]}
                /\ UNCHANGED resp
           ELSE /\ resp' = o.resp
                /\ UNCHANGED flight
        /\ UNCHANGED <<now, db, cleanupCounter, rl, win, allowedLog, cycle>>

\* The body of the request in a slot is read; the handler runs to its end.
LiveEnd(f, body) ==
    LET o == liveStore(rateMap, db, cleanupCounter, now, f.serverId, body)
    IN  /\ f \in flight /\ f.ep = "live"
        /\ db' = o.db
        /\ cleanupCounter' = o.cleanupCounter
        /\ resp' = o.resp
        /\ flight' = flight \ {f}
        /\ hist' = IF o.resp.status = 200 /\ cleanupCounter + 1 >= CLEANUP_EVERY
                   THEN [hist EXCEPT !.sweeps = @ + 1]
                   ELSE hist
        /\ UNCHANGED <<now, rateMap, rl, win, allowedLog, cycle>>

TickCleanup ==
    /\ \E t \in CleanupTimes : t > now /\ now' = t
    /\ UNCHANGED <<rateMap, db, cleanupCounter, resp, rl, win, allowedLog, cycle,
                   hist, flight>>

NextCleanup ==
    \/ \E id \in NodeIds : RegisterServer(id)
    \/ \E slot \in 1..MaxFlight, hdr \in AgentHeaders : LiveBegin(slot, "10.0.0.1", hdr)
    \/ \E f \in flight, body \in LiveBodies : LiveEnd(f, body)
    \/ \E id \in NodeIds : DeleteServer(id)
    \/ TickCleanup

SpecCleanup == InitCleanup /\ [][NextCleanup]_vars

(***************************************************************************)
(* Requests in flight while nodes are removed                              *)
(***************************************************************************)

\* Requests followed.
MaxRaced == 3

\* A request of an agent arrives and runs up to its await.
RacedBegin(slot, ep, hdr) ==
    LET o == IF ep = "metrics"
             THEN metricsBegin(rateMap, db, cleanupCounter, now, "10.0.0.1", hdr)
             ELSE liveBegin(rateMap, db, cleanupCounter, now, "10.0.0.1", hdr)
    IN  /\ slot \in FreeSlots
        /\ hist.begun < MaxRaced
        /\ authenticateRequest(db, hdr).ok
        /\ o.resp = NoResponse
        /\ rateMap' = o.rateMap
        /\ hist' = [hist EXCEPT !.begun = @ + 1]
        /\ flight' = flight \cup
              {[slot |-> slot, ep |-> ep,
                serverId |-> IdOf(db, authenticateRequest(db, hdr).serverId)]}
        /\ UNCHANGED <<now, db, cleanupCounter, resp, rl, win, allowedLog, cycle>>

\* A push of the dashboard arrives and runs up to its await.
PushBegin(slot, id) ==
    LET o == pushConfigBegin(rateMap, db, cleanupCounter, id)
    IN  /\ slot \in FreeSlots
        /\ hist.begun < MaxRaced
        /\ hist' = [hist EXCEPT !.begun = @ + 1]
        /\ IF o.resp = NoResponse
           THEN /\ flight' = flight \cup
                      {[slot |-> slot, ep |-> "push", serverId |-> id]}
                /\ UNCHANGED resp
           ELSE /\ resp' = o.resp
                /\ UNCHANGED flight
        /\ UNCHANGED <<now, rateMap, db, cleanupCounter, rl, win, allowedLog,
                       cycle>>

\* The state the rest of a handler leaves, its request leaving the flight.
RacedApply(f, o) ==
    /\ f \in flight
    /\ \A tbl \in DOMAIN o.db.seq : o.db.seq[tbl] <= MaxHeld
    /\ db' = o.db
    /\ cleanupCounter' = o.cleanupCounter
    /\ resp' = o.resp
    /\ flight' = flight \ {f}
    /\ UNCHANGED <<now, rateMap, rl, win, allowedLog, cycle, hist>>

\* The body of a request in flight is read; its handler runs to its end.
MetricsEnd(f, body) ==
    /\ f.ep = "metrics"
    /\ RacedApply(f, metricsStore(rateMap, db, cleanupCounter, now, f.serverId,
                                  body))

RacedLiveEnd(f, body) ==
    /\ f.ep = "live"
    /\ RacedApply(f, liveStore(rateMap, db, cleanupCounter, now, f.serverId,
                               body))

PushEnd(f, config) ==
    /\ f.ep = "push"
    /\ RacedApply(f, pushConfigStore(rateMap, db, cleanupCounter, now,
                                     f.serverId, config))

\* Requests of agents and of the dashboard begin, nodes are removed, and
\* the requests end, in any order.
NextRace ==
    \/ \E id \in NodeIds : RegisterServer(id)
    \/ \E slot \in 1..MaxFlight, ep \in {"metrics", "live"}, hdr \in QueueHeaders :
          RacedBegin(slot, ep, hdr)
    \/ \E slot \in 1..MaxFlight, id \in NodeIds : PushBegin(slot, id)
    \/ \E f \in flight, body \in MetricsBodies : MetricsEnd(f, body)
    \/ \E f \in flight, body \in LiveBodies : RacedLiveEnd(f, body)
    \/ \E f \in flight : PushEnd(f, <<<<"shell", "rm">>, <<"log_level", "DEBUG">>>>)
    \/ \E id \in NodeIds : DeleteServer(id)

SpecRace == Init /\ [][NextRace]_vars

(***************************************************************************)
(* The rate limiter with its eviction sweep                                *)
(***************************************************************************)

\* Calls of checkRateLimit followed.
MaxSweptCalls == 6

\* The start, the instant before the first sweep is due, that instant, and
\* the end of a window opened at it and the instant after.
SweepTimes ==
    {0, SWEEP_MS - 1, SWEEP_MS, SWEEP_MS + WINDOW_MS, SWEEP_MS + WINDOW_MS + 1}

\* Every address has made MAX_REQUESTS - Headroom calls at time 0; hist
\* keeps, as shadow, the map that no sweep touches.
InitSweep ==
    /\ now = 0
    /\ rateMap = [ip \in IPs |->
                    [count |-> MAX_REQUESTS - Headroom, resetTime |-> WINDOW_MS]]
    /\ hist = [NoHist EXCEPT !.shadow = rateMap]
    /\ db = InitDb
    /\ cleanupCounter = 0
    /\ resp = NoResponse
    /\ rl = NoResult
    /\ win = EmptyMap
    /\ allowedLog = EmptyMap
    /\ cycle = NoCycle
    /\ flight = NoFlight

\* checkRateLimit(ip); the same call is made on the shadow map.
SweptCall(ip) ==
    LET r == checkRateLimit(rateMap, now, ip)
    IN  /\ hist.begun < MaxSweptCalls
        /\ rateMap' = r.map
        /\ rl' = [ip |-> ip, allowed |-> r.allowed, remaining |-> r.remaining,
                  n |-> 0, at |-> now, prev |-> CountOf(rateMap, ip)]
        /\ hist' = [hist EXCEPT
                      !.begun = @ + 1,
                      !.shadow = checkRateLimit(@, now, ip).map]
        /\ UNCHANGED <<now, db, cleanupCounter, resp, win, allowedLog, cycle,
                       flight>>

\* The timer fires, at the first interval or at any time after it (timers
\* run late, never early).
EvictionSweep ==
    /\ now >= SWEEP_MS
    /\ rateMap' = evictStale(rateMap, now)
    /\ UNCHANGED <<now, db, cleanupCounter, resp, rl, win, allowedLog, cycle,
                   hist, flight>>

TickSweep ==
    /\ \E t \in SweepTimes : t > now /\ now' = t
    /\ UNCHANGED <<rateMap, db, cleanupCounter, resp, rl, win, allowedLog, cycle,
                   hist, flight>>

NextSweep ==
    \/ \E ip \in IPs : SweptCall(ip)
    \/ EvictionSweep
    \/ TickSweep

SpecSweep == InitSweep /\ [][NextSweep]_vars

(***************************************************************************)
(* Claims on the rate limiter                                              *)
(***************************************************************************)

\* C1: per key, counting from the call that opens a 60 s window, calls 1 to
\* 120 of the window are allowed and every later call of the window is
\* rejected; a rejected call leaves the window's reset time where the
\* opening call put it (60 s after that call).
C1_WindowBudget ==
    rl.ip # "" =>
        /\ rl.allowed <=> rl.n <= MAX_REQUESTS
        /\ ~rl.allowed =>
              rateMap[rl.ip].resetTime = win[rl.ip].start + WINDOW_MS

\* C1 witness: the 121st call of a window has just been rejected.
C1_Witness == rl.ip # "" /\ rl.n = MAX_REQUESTS + 1 /\ ~rl.allowed

\* C2: per key, a call made when the time has passed the window's reset
\* time is allowed and leaves the counter at 1 with a reset time 60 s after
\* the call, whatever the counter was.
C2_FreshWindow ==
    [][\A ip \in IPs :
          (CheckRateLimit(ip) /\ ip \in DOMAIN rateMap
                              /\ now > rateMap[ip].resetTime)
          => /\ rl'.allowed
             /\ rl'.remaining = MAX_REQUESTS - 1
             /\ rateMap'[ip] = [count |-> 1, resetTime |-> now + WINDOW_MS]]_vars

\* C2 witness: a window has just been opened by a call that found a counter
\* above the budget, left there by rejected calls.
C2_Witness ==
    /\ rl.ip # "" /\ rl.prev > MAX_REQUESTS /\ rl.allowed
    /\ rateMap[rl.ip].count = 1

\* The calls of ip allowed at the times of ts, by the log lg.
RECURSIVE AllowedIn(_, _)
AllowedIn(lg, ts) ==
    IF ts = {} THEN 0
    ELSE LET t == CHOOSE x \in ts : TRUE
         IN  lg[t] + AllowedIn(lg, ts \ {t})

\* C3: sliding window: for every key and every interval of 60 s, at most
\* 120 calls of the key are allowed within the interval. (It is enough to
\* look at the intervals that start at an allowed call.)
C3_SlidingWindow ==
    \A ip \in DOMAIN allowedLog : \A s \in DOMAIN allowedLog[ip] :
        AllowedIn(allowedLog[ip],
                  {t \in DOMAIN allowedLog[ip] : s <= t /\ t < s + WINDOW_MS})
            <= MAX_REQUESTS

(***************************************************************************)
(* Claims on the request boundary                                          *)
(***************************************************************************)

\* The address ip has used up the budget of its open window.
OverBudget(ip) ==
    /\ ip \in DOMAIN rateMap
    /\ now <= rateMap[ip].resetTime
    /\ rateMap[ip].count >= MAX_REQUESTS

\* The step took one unit of the budget of ip and of no other address.
Consumed(ip) ==
    /\ ip \in DOMAIN rateMap'
    /\ rateMap'[ip].count =
          IF ip \in DOMAIN rateMap /\ now <= rateMap[ip].resetTime
          THEN rateMap[ip].count + 1 ELSE 1
    /\ \A other \in DOMAIN rateMap \ {ip} :
          other \in DOMAIN rateMap' /\ rateMap'[other] = rateMap[other]

\* The header carries nodeId:secret of a registered, active node whose
\* stored hash is the hash of the secret.
ValidCredential(d, hdr) ==
    \E id \in DOMAIN d.servers, key \in Keys :
        /\ hdr = Bearer(<<id, ":", key>>)
        /\ d.servers[id].is_active = 1
        /\ d.servers[id].api_key_hash = hashSync(<<key>>)

ValidHeaders(d) == {hdr \in Headers : ValidCredential(d, hdr)}

\* C4 as stated: each of register, submit metrics, submit live snapshot and
\* confirm config applied takes one unit of the budget of some address, and
\* is answered 429 exactly when that address is over budget.
C4_EveryCallGated ==
    [][resp'.ep \in {"register", "metrics", "live", "confirm"} =>
          \E ip \in IPs : /\ Consumed(ip)
                          /\ OverBudget(ip) <=> resp'.status = 429]_vars

\* C4, amended: submit metrics and submit live snapshot consult the rate
\* limiter first and the credential verifier second: the call takes one unit
\* of its address's budget whatever its credential, a call over budget is
\* answered 429 with the store untouched even when its credential is valid,
\* and a call answered 401 has taken its unit. Register consults the rate
\* limiter only. Confirm config applied consults the credential verifier
\* only: it never touches the rate limiter.
C4_Gates ==
    [][/\ resp'.ep \in {"metrics", "live"} =>
            /\ \E ip \in IPs :
                  /\ Consumed(ip)
                  /\ OverBudget(ip) => resp' = RateLimited(resp'.ep) /\ db' = db
                  /\ ~OverBudget(ip) => resp'.status \in {200, 401}
       /\ resp'.ep = "metrics" =>
            \A ip \in {i \in IPs : OverBudget(i)}, hdr \in ValidHeaders(db),
               body \in MetricsBodies :
                  MetricsPOST(ip, hdr, body) => resp'.status = 429
       /\ resp'.ep = "register" =>
            \E ip \in IPs : /\ Consumed(ip)
                            /\ OverBudget(ip) <=> resp'.status = 429
                            /\ resp'.status \in {429, 400, 201}
       /\ resp'.ep = "confirm" =>
            rateMap' = rateMap /\ resp'.status \in {200, 401, 403}]_vars

\* C4 witness: a metrics call was answered 429 while a node was registered
\* and active, and so a valid credential existed.
C4_Witness ==
    /\ resp = RateLimited("metrics")
    /\ \E id \in DOMAIN db.servers : db.servers[id].is_active = 1

\* C5: a request answered 429, 401, 403 or 400 leaves every table of the
\* store (and the live-cleanup counter) as it was; of the rate limiter it
\* changes at most the counter of one address.
C5_RejectedLeavesStore ==
    [][resp'.status \in {429, 401, 403, 400} =>
          /\ db' = db
          /\ cleanupCounter' = cleanupCounter
          /\ rateMap' = rateMap \/ \E ip \in IPs : Consumed(ip)]_vars

\* C5 witness: a confirm was answered 403 while a queue held unapplied items.
C5_Witness ==
    /\ resp = Forbidden("confirm")
    /\ \E r \in db.agent_pending_config : r.applied_at = NULL

\* C6: in every state and for every header, authenticateRequest succeeds
\* exactly for the nodeId:secret of a registered, active node whose stored
\* hash matches, and then returns that node's id; every failure (no header,
\* another scheme, no separator, an empty side, an unknown node, an inactive
\* node, a wrong secret) is the same null, and a response that reports a
\* failure is the same 401 body whatever the cause.
C6_Authenticate ==
    /\ \A hdr \in Headers :
          LET auth == authenticateRequest(db, hdr)
          IN  /\ auth.ok <=> ValidCredential(db, hdr)
              /\ auth.ok => auth.serverId = <<hdr.token[1]>>
              /\ ~auth.ok => auth = AuthNull
    /\ resp.status = 401 => resp = Unauthorized(resp.ep)

\* C6 witness: a ping was answered 401 while a node was inactive and
\* another active.
C6_Witness ==
    /\ resp = Unauthorized("ping")
    /\ \E id \in DOMAIN db.servers : db.servers[id].is_active = 0
    /\ \E id \in DOMAIN db.servers : db.servers[id].is_active = 1

\* The store without the pending items of serverId.
WithoutQueue(d, serverId) ==
    [d EXCEPT !.agent_pending_config = {r \in @ : r.server_id # serverId}]

\* C7: a poll or confirm with a valid credential of node A for the queue of
\* another id B is answered 403 with the fixed Forbidden body, which is also
\* the answer it would get were B's queue empty, and leaves the store (every
\* pending item, of A and of B) unchanged.
C7_Scoped ==
    [][resp'.ep \in {"poll", "confirm"} =>
          \A hdr \in ValidHeaders(db) :
            \A serverId \in RouteIds \ {hdr.token[1]} :
              (ConfigGET(hdr, serverId) \/ ConfigPOST(hdr, serverId))
              => /\ resp' = Forbidden(resp'.ep)
                 /\ configGET(rateMap, WithoutQueue(db, serverId),
                              cleanupCounter, hdr, serverId).resp.data
                      = resp'.data
                 /\ db' = db]_vars

\* C7 witness: a poll was answered 403 while a queue held unapplied items.
C7_Witness ==
    /\ resp = Forbidden("poll")
    /\ \E r \in db.agent_pending_config : r.applied_at = NULL

(***************************************************************************)
(* Claims on the alert engine                                              *)
(***************************************************************************)

\* The alerts the last call of checkThresholds created.
NewAlerts == {a \in db.alerts : a.id > cycle.before}

NewOfType(alertType) == {a \in NewAlerts : a.alert_type = alertType}

SeverityOf(v) == IF v >= 950 THEN "critical" ELSE "warning"

\* The last cycle raised, for a value v against a threshold th, an alert of
\* the type exactly when v >= th, only one, critical from 95.0 on.
RuleHolds(alertType, v, th) ==
    /\ NewOfType(alertType) # {} <=> v >= th
    /\ Cardinality(NewOfType(alertType)) <= 1
    /\ \A a \in NewOfType(alertType) :
          /\ a.server_id = cycle.serverId
          /\ a.severity = SeverityOf(v)
          /\ a.metric_value = v /\ a.threshold_value = th

\* C8: after a cycle for a registered node, for each of cpu and memory, an
\* alert of that type has been created exactly when the value is >= the
\* node's threshold for it, and it is critical when the value is >= 95.0 and
\* warning otherwise.
C8_CpuMemoryRule ==
    (cycle.n > 0 /\ cycle.known) =>
        /\ RuleHolds("cpu", cycle.cpu, cycle.cpuThreshold)
        /\ RuleHolds("memory", cycle.mem, cycle.memThreshold)

\* C8 witness: with the threshold at 90, a cycle with cpu 94.9 has raised a
\* warning after a cycle with 89.9 that raised nothing.
C8_Witness ==
    /\ cycle.n = 2 /\ cycle.cpu = 949 /\ cycle.cpuThreshold = 900
    /\ cycle.before = 0
    /\ \E a \in NewOfType("cpu") : a.severity = "warning"

\* The entry is one the claim says never alerts, its fstype read as written
\* or in lower case.
NamedPrefix(text, prefixes) ==
    \E p \in prefixes : Len(p) <= Len(text) /\ \A i \in 1..Len(p) : text[i] = p[i]

VirtualAsWritten(disk) ==
    \/ disk.fstype \in {"squashfs", "tmpfs", "devtmpfs", "overlay", "aufs",
                        "iso9660", "ramfs"}
    \/ NamedPrefix(disk.mountpoint,
                   {<<"/", "snap", "/">>, <<"/", "sys", "/">>,
                    <<"/", "proc", "/">>, <<"/", "run", "/">>,
                    <<"/", "dev", "/">>})
    \/ NamedPrefix(disk.device, {<<"/", "dev", "/", "loop">>})

VirtualAnyCase(disk) ==
    VirtualAsWritten([disk EXCEPT !.fstype = toLowerCase(@)])

\* The last cycle raised one disk alert per entry of its list that is not
\* virtual and has percent >= the threshold, in the order of the list,
\* critical from 95.0 on, and no other disk alert.
DiskRuleHolds(Virtual(_)) ==
    LET Alerting(disk) == ~Virtual(disk) /\ disk.percent >= cycle.diskThreshold
        due == SelectSeq(cycle.disks, Alerting)
        first == db.seq.alerts - Len(due)
    IN  /\ Cardinality(NewOfType("disk")) = Len(due)
        /\ \A i \in 1..Len(due) :
              \E a \in NewOfType("disk") :
                  /\ a.id = first + i
                  /\ a.server_id = cycle.serverId
                  /\ a.severity = SeverityOf(due[i].percent)
                  /\ a.metric_value = due[i].percent
                  /\ a.threshold_value = cycle.diskThreshold
                  /\ a.message.mount = due[i].mountpoint

\* C9 as stated: the entries that never alert are those whose fstype is one
\* of the seven names, whose mountpoint starts with one of the five
\* prefixes or whose device starts with /dev/loop; every other entry raises
\* exactly one disk alert exactly when its percent is >= the disk threshold.
C9_DiskRule ==
    (cycle.n > 0 /\ cycle.known) =>
        DiskRuleHolds(VirtualAsWritten)

\* C9, amended: the same, with the fstype compared in lower case, so that
\* an entry whose fstype is TMPFS never alerts either.
C9_DiskRuleAnyCase ==
    (cycle.n > 0 /\ cycle.known) =>
        DiskRuleHolds(VirtualAnyCase)

\* C9 witness: a cycle whose list held a tmpfs entry at 99% and /data at 91%
\* has raised one disk alert, the warning for /data.
C9_Witness ==
    /\ cycle.n > 0 /\ Len(cycle.disks) = 2
    /\ cycle.disks[1].fstype = "tmpfs" /\ cycle.disks[1].percent = 990
    /\ cycle.diskThreshold = 900
    /\ Cardinality(NewOfType("disk")) = 1
    /\ \A a \in NewOfType("disk") :
          a.severity = "warning" /\ a.metric_value = 910

\* The notifications of an alert.
NotificationsOf(d, a) == {n \in d.notifications : n.alert_id = a.id}

OneEach(d) ==
    \A a \in d.alerts :
        /\ Cardinality(NotificationsOf(d, a)) <= 1
        /\ \A n \in NotificationsOf(d, a) : n.message = a.message

\* C10: in every state each alert has at most one notification and each
\* notification of an alert carries the alert's message; a step that creates
\* alerts leaves each of them with exactly one notification, unread and with
\* the alert's message.
C10_OneNotification ==
    [][/\ OneEach(db) /\ OneEach(db')
       /\ \A a \in db'.alerts :
             a.id > db.seq.alerts =>
                 /\ Cardinality(NotificationsOf(db', a)) = 1
                 /\ \A n \in NotificationsOf(db', a) :
                       n.is_read = 0 /\ n.message = a.message]_vars

\* C10 witness: an alert has its one unread notification, and an older
\* alert has lost its read notification to the retention purge.
C10_Witness ==
    \E a, b \in db.alerts :
        /\ Cardinality(NotificationsOf(db, a)) = 1
        /\ \A n \in NotificationsOf(db, a) : n.is_read = 0
        /\ b.id < a.id /\ NotificationsOf(db, b) = {}

(***************************************************************************)
(* Claims on the life of alerts                                            *)
(***************************************************************************)

\* C11: no step changes the node, type, severity, message, observed value,
\* threshold value or time of an alert that exists before and after it, and
\* no step (cycle, acknowledgment, notification read, threshold update,
\* purge, node removal) leaves an acknowledged alert unacknowledged.
C11_AlertLifecycle ==
    [][\A a \in db.alerts : \A b \in db'.alerts :
          a.id = b.id =>
              /\ b.server_id = a.server_id /\ b.alert_type = a.alert_type
              /\ b.severity = a.severity /\ b.message = a.message
              /\ b.metric_value = a.metric_value
              /\ b.threshold_value = a.threshold_value
              /\ b.timestamp = a.timestamp
              /\ a.is_acknowledged = 1 => b.is_acknowledged = 1]_vars

\* C11 witness: an alert acknowledged at an earlier time is still there and
\* acknowledged, after a second cycle and a threshold update.
C11_Witness ==
    \E a \in db.alerts :
        /\ a.is_acknowledged = 1 /\ a.acknowledged_at < SqlNow(now)
        /\ cycle.n = 2 /\ cycle.before >= a.id
        /\ db.servers[a.server_id].alert_cpu_threshold # a.threshold_value

\* C12: acknowledging an alert leaves it acknowledged and out of the
\* active-alerts query (for its node and for all nodes) and changes no
\* notification; marking one or all notifications read changes no alert.
C12_AckAndReadApart ==
    [][/\ \A alertId \in 1..MaxAlerts :
            AcknowledgeAlert(alertId) =>
                /\ db'.notifications = db.notifications
                /\ \A a \in db'.alerts :
                      a.id = alertId =>
                          /\ a.is_acknowledged = 1
                          /\ a \notin getActiveAlerts(db', "")
                          /\ a \notin getActiveAlerts(db', a.server_id)
                /\ \A a \in getActiveAlerts(db', "") : a.id # alertId
       /\ \A id \in 1..MaxAlerts :
            MarkNotificationRead(id) => db'.alerts = db.alerts
       /\ MarkAllNotificationsRead => db'.alerts = db.alerts]_vars

\* C12 witness: a critical cpu alert (95.0 against 90.0) is acknowledged and
\* out of the active alerts while its notification is unread.
C12_Witness ==
    \E a \in db.alerts :
        /\ a.alert_type = "cpu" /\ a.metric_value = 950 /\ a.threshold_value = 900
        /\ a.is_acknowledged = 1
        /\ a \notin getActiveAlerts(db, "")
        /\ \E n \in db.notifications : n.alert_id = a.id /\ n.is_read = 0

(***************************************************************************)
(* Claims on the configuration queue                                       *)
(***************************************************************************)

\* C13: in every state, two unapplied pending items of the same node and
\* key are the same item, whatever the order of pushes, polls and confirms.
C13_OneUnapplied ==
    \A r, q \in db.agent_pending_config :
        (/\ r.applied_at = NULL /\ q.applied_at = NULL
         /\ r.server_id = q.server_id /\ r.config_key = q.config_key)
        => r = q

\* C13 witness: with both nodes still there, two pushes of log_level to the
\* same node have left one unapplied item, the second.
C13_Witness ==
    /\ DOMAIN db.servers = NodeIds
    /\ db.seq.agent_pending_config = 2
    /\ \E r \in db.agent_pending_config :
          /\ db.agent_pending_config = {r}
          /\ r.id = 2 /\ r.config_key = "log_level" /\ r.applied_at = NULL

\* The map a poll returns once `pushed` is queued over the map `old`.
Overridden(old, pushed) ==
    pushed \cup {e \in old : \A p \in pushed : p[1] # e[1]}

\* C14: an accepted push leaves, as what the node's poll returns, the map of
\* before with each pushed allow-listed key at the value just pushed (so a
\* run of pushes leaves each key at its most recent value); a poll returns
\* that map and changes nothing; a confirm leaves nothing unapplied, so that
\* the next poll has no update; a confirm with nothing pending changes no
\* state.
C14_LastWriteWins ==
    [][/\ \A id \in NodeIds, config \in QueueConfigs :
            (resp' = Response("push", 200, "", Entries(filterKeys(config)))
             /\ Push(id, config)) =>
                /\ getPendingConfig(db', id)
                      = Overridden(getPendingConfig(db, id),
                                   Entries(filterKeys(config)))
                /\ \A hdr \in QueueHeaders :
                      LET poll == configGET(rateMap', db', cleanupCounter',
                                            hdr, id).resp
                      IN  poll.status = 200 =>
                            poll.data
                              = Overridden(getPendingConfig(db, id),
                                           Entries(filterKeys(config)))
       /\ \A hdr \in QueueHeaders, id \in NodeIds :
            (resp'.ep = "poll" /\ resp'.status = 200 /\ Poll(hdr, id)) =>
                /\ resp'.data = getPendingConfig(db, id)
                /\ db' = db
       /\ \A hdr \in QueueHeaders, id \in NodeIds :
            (resp' = Response("confirm", 200, "", {}) /\ Confirm(hdr, id)) =>
                /\ Unapplied(db', id) = {}
                /\ configGET(rateMap', db', cleanupCounter', hdr, id).resp.data
                      = {}
                /\ getPendingConfig(db, id) = {} =>
                      /\ db' = db
                      /\ rateMap' = rateMap
                      /\ cleanupCounter' = cleanupCounter]_vars

\* C14 witness: log_level was pushed twice to the only node and confirmed;
\* the item kept is the second, INFO, and the poll after the confirm has no
\* update.
C14_Witness ==
    /\ DOMAIN db.servers = {"n1"}
    /\ db.seq.agent_pending_config = 2
    /\ resp = Response("poll", 200, "", {})
    /\ \E r \in db.agent_pending_config :
          /\ db.agent_pending_config = {r}
          /\ r.id = 2 /\ r.config_key = "log_level"
          /\ JsonParse(r.config_value) = "INFO"
          /\ r.applied_at # NULL

\* The items a step has added to the queue.
Queued == {r \in db'.agent_pending_config :
              \A q \in db.agent_pending_config : q.id # r.id}

\* C15: a push none of whose keys is allow-listed is rejected and changes
\* nothing; any other push to a known node queues exactly its allow-listed
\* (key, value) pairs, for that node; and no step ever leaves an item whose
\* key is outside the allow-list.
C15_PushValidates ==
    [][/\ \A id \in RouteIds, config \in QueueConfigs :
            (resp'.ep = "push" /\ Push(id, config)) =>
                IF \A i \in 1..Len(config) : config[i][1] \notin allowedKeys
                THEN /\ resp'.status >= 400
                     /\ db' = db
                ELSE HasServer(db, id) =>
                     /\ resp'.status = 200
                     /\ \A r \in Queued : r.server_id = id /\ r.applied_at = NULL
                     /\ {<<r.config_key, JsonParse(r.config_value)>> : r \in Queued}
                           = {config[i] : i \in {j \in 1..Len(config) :
                                                   config[j][1] \in allowedKeys}}
       /\ \A r \in db'.agent_pending_config : r.config_key \in allowedKeys]_vars

\* C15 witness: a push to the only node was rejected for its keys while an
\* earlier item of the node was waiting, which is still there.
C15_Witness ==
    /\ DOMAIN db.servers = {"n1"}
    /\ resp = Response("push", 400, "No valid config keys provided", {})
    /\ \E r \in db.agent_pending_config :
          /\ db.agent_pending_config = {r}
          /\ r.server_id = "n1" /\ r.applied_at = NULL

\* C16: in every step, an applied item whose node remains is still in the
\* queue with every field as it was, and an unapplied item that a step
\* removes while its node remains was superseded: the step queued an item
\* of the same node and key.
C16_AppliedImmutable ==
    [][\A r \in db.agent_pending_config :
          r.server_id \in DOMAIN db'.servers =>
             /\ r.applied_at # NULL => r \in db'.agent_pending_config
             /\ (r.applied_at = NULL
                 /\ \A q \in db'.agent_pending_config : q.id # r.id)
                => \E q \in Queued : /\ q.server_id = r.server_id
                                     /\ q.config_key = r.config_key]_vars

\* C16 witness: an item applied more than the retention ago is still there,
\* beside a later unapplied item of the same node and key.
C16_Witness ==
    \E r, q \in db.agent_pending_config :
        /\ r.applied_at # NULL
        /\ r.applied_at < SqlNow(now) - RetentionDays * 86400
        /\ q.applied_at = NULL /\ q.created_at = SqlNow(now)
        /\ q.server_id = r.server_id /\ q.config_key = r.config_key
        /\ JsonParse(q.config_value) # JsonParse(r.config_value)

(***************************************************************************)
(* Claims on the nodes                                                     *)
(***************************************************************************)

\* The tables whose rows carry the id of their node.
OwnedTables ==
    {"metrics", "processes", "services", "live_metrics", "alerts",
     "agent_pending_config"}

\* The ids of the alerts of a node.
AlertIdsOf(d, id) == {a.id : a \in {x \in d.alerts : x.server_id = id}}

\* C17: the deletion of a node leaves no row of it in any table and no
\* notification of its alerts, makes its lookup answer 404 and its
\* credential fail, and leaves the other nodes and exactly their rows and
\* notifications; no step leaves a row of a node that is not there.
C17_DeleteCascades ==
    [][/\ \A id \in RouteIds :
            (resp'.ep = "delete" /\ Delete(id)) =>
                /\ ~HasServer(db', id)
                /\ serverGET(rateMap', db', cleanupCounter', id).resp
                      = Response("lookup", 404, "Server not found", {})
                /\ \A key \in Keys :
                      ~authenticateRequest(db', Bearer(<<id, ":", key>>)).ok
                /\ \A tbl \in OwnedTables :
                      db'[tbl] = {r \in db[tbl] : r.server_id # id}
                /\ db'.notifications
                      = {n \in db.notifications :
                            n.alert_id \notin AlertIdsOf(db, id)}
                /\ \A other \in DOMAIN db.servers \ {id} :
                      /\ HasServer(db', other)
                      /\ db'.servers[other] = db.servers[other]
       /\ \A tbl \in OwnedTables :
            \A r \in db'[tbl] : HasServer(db', r.server_id)
       /\ \A n \in db'.notifications :
            \E a \in db'.alerts : a.id = n.alert_id]_vars

\* C17 witness: n1, which had a row in every table, was deleted; n2 and
\* its rows are there.
C17_Witness ==
    /\ resp = Response("delete", 200, "", {})
    /\ "n1" \in db.minted
    /\ DOMAIN db.servers = {"n2"}
    /\ \A tbl \in OwnedTables :
          /\ db.seq[tbl] = 2
          /\ \E r \in db[tbl] : db[tbl] = {r} /\ r.server_id = "n2"
    /\ db.seq.notifications = 2
    /\ Cardinality(db.notifications) = 1

\* The columns of a node that no update may write.
ProtectedFields ==
    {"hostname", "ip_address", "os_info", "api_key_hash", "registered_at",
     "last_seen_at"}

\* What every PATCH leaves alone: the ids of the nodes, the protected
\* columns of the node, the other nodes, and every other table.
PatchFrame(id) ==
    /\ DOMAIN db'.servers = DOMAIN db.servers
    /\ \A other \in DOMAIN db.servers :
          IF other = id
          THEN \A f \in ProtectedFields :
                  db'.servers[id][f] = db.servers[id][f]
          ELSE db'.servers[other] = db.servers[other]
    /\ [db' EXCEPT !.servers = db.servers] = db

\* C18 as stated: every PATCH keeps the frame, and one whose body carries a
\* field outside the allow-list is rejected and changes nothing.
C18_RejectsOthers ==
    [][\A id \in RouteIds, body \in PatchBodies :
          (resp'.ep = "update" /\ Patch(id, body)) =>
              /\ PatchFrame(id)
              /\ (HasServer(db, id) /\ ~(DOMAIN body \subseteq AllowedFields))
                 => (resp'.status >= 400 /\ db' = db)]_vars

\* C18, amended: every PATCH keeps the frame; the fields of its body outside
\* the allow-list are ignored, its allow-listed fields are written to the
\* node, the node's other columns stay, and the answer is 200 in each case.
C18_AllowListOnly ==
    [][\A id \in RouteIds, body \in PatchBodies :
          (resp'.ep = "update" /\ Patch(id, body)) =>
              /\ PatchFrame(id)
              /\ resp'.status = 200
              /\ HasServer(db, id) =>
                    \A f \in DOMAIN db.servers[id] :
                        db'.servers[id][f]
                          = IF f \in DOMAIN body \cap AllowedFields
                            THEN body[f] ELSE db.servers[id][f]]_vars

\* C18 witness: a PATCH naming notes, api_key_hash and last_seen_at was
\* answered; n1 has the new notes, its own key and the time of its report.
C18_Witness ==
    /\ resp = Response("update", 200, "", {})
    /\ HasServer(db, "n1")
    /\ db.servers["n1"].notes = "moved"
    /\ db.servers["n1"].api_key_hash = hashSync(Str("k1"))
    /\ db.servers["n1"].last_seen_at = 0
    /\ db.metrics # {}

(***************************************************************************)
(* Claims on the retention purge                                           *)
(***************************************************************************)

\* C19: after a purge, every alert that was unacknowledged and every
\* notification that was unread before it still exists, whatever its age.
C19_PurgeKeepsOpen ==
    [][CleanupOldData =>
          /\ \A a \in db.alerts :
                a.is_acknowledged = 0 => a \in db'.alerts
          /\ \A n \in db.notifications :
                n.is_read = 0 => n \in db'.notifications]_vars

(***************************************************************************)
(* Claims on the live benchmark                                            *)
(***************************************************************************)

\* The columns the benchmark aggregates, with the prefix of their results.
BenchmarkColumns ==
    {<<"cpu", "cpu_percent">>, <<"mem", "memory_percent">>,
     <<"swap", "swap_percent">>, <<"proc", "process_count">>,
     <<"thread", "thread_count">>}

\* The benchmark in the response of the live view.
BenchmarkIn(r) == (CHOOSE e \in r.data : e[1] = "benchmark")[2]

\* C20: the live view of a known node answers 200 with a benchmark over
\* exactly the node's samples no older than the window: their count, and
\* per column a minimum and a maximum that are values of samples in the
\* window bounding all of them, and an average whose sum over its count is
\* the sum of the values over their number; over an empty window the count
\* is 0 and the aggregates are null.
C20_Benchmark ==
    [][\A id \in NodeIds :
          (resp'.ep = "liveview" /\ HasServer(db, id) /\ LiveGET(id)) =>
             LET b == BenchmarkIn(resp')
                 inWindow == {r \in db.live_metrics :
                                /\ r.server_id = id
                                /\ now \div 1000 - r.timestamp
                                      <= BenchmarkMinutes * 60}
                 n == Cardinality(inWindow)
             IN  /\ resp'.status = 200
                 /\ b.sample_count = n
                 /\ \A c \in BenchmarkColumns :
                      LET min == b[c[1] \o "_min"]
                          max == b[c[1] \o "_max"]
                          avg == b[c[1] \o "_avg"]
                      IN  IF n = 0
                          THEN min = NULL /\ max = NULL /\ avg = <<>>
                          ELSE /\ \E r \in inWindow : r[c[2]] = min
                               /\ \E r \in inWindow : r[c[2]] = max
                               /\ \A r \in inWindow :
                                     min <= r[c[2]] /\ r[c[2]] <= max
                               /\ avg[2] = n
                               /\ avg[1] = SumOf(inWindow, c[2])]_vars

\* C20 witness: the benchmark of n1 over its samples at 10%, 50% and 90% of
\* CPU, all on the edge of the window: count 3, minimum 10%, maximum 90%,
\* average 50%.
C20_Witness ==
    /\ resp.ep = "liveview" /\ resp.status = 200
    /\ <<"server_id", "n1">> \in resp.data
    /\ now = BenchmarkMinutes * 60000
    /\ \A r \in db.live_metrics : r.server_id = "n1" /\ r.timestamp = 0
    /\ {r.cpu_percent : r \in db.live_metrics} = {100, 500, 900}
    /\ LET b == BenchmarkIn(resp)
       IN  /\ b.sample_count = 3
           /\ b.cpu_min = 100 /\ b.cpu_max = 900
           /\ b.cpu_avg[1] = 500 * b.cpu_avg[2]

(***************************************************************************)
(* Claims on the heartbeat                                                 *)
(***************************************************************************)

\* C21: a ping without a valid credential is answered 401 and changes
\* nothing; a ping with the credential of a node is answered 200 and leaves
\* the store as it was except for that node's last-seen time, which is the
\* time of the call; in both cases the rate limiter's map and the
\* live-cleanup counter are as before, whatever the budgets are.
C21_PingFrame ==
    [][\A hdr \in Headers :
          (resp'.ep = "ping" /\ PingPOST(hdr)) =>
             /\ rateMap' = rateMap
             /\ cleanupCounter' = cleanupCounter
             /\ IF ValidCredential(db, hdr)
                THEN \E id \in DOMAIN db.servers :
                        /\ hdr.token[1] = id
                        /\ resp'.status = 200
                        /\ db' = [db EXCEPT
                                    !.servers[id].last_seen_at = now \div 1000]
                ELSE resp' = Unauthorized("ping") /\ db' = db]_vars

\* C21 witness: with every address at or over its budget and no row ever
\* written, a ping was answered 200 and its node has a last-seen time.
C21_Witness ==
    /\ resp = Response("ping", 200, "", {})
    /\ \A ip \in IPs : rateMap[ip].count >= MAX_REQUESTS
    /\ \A tbl \in DOMAIN db.seq : db.seq[tbl] = 0
    /\ \E id \in DOMAIN db.servers : db.servers[id].last_seen_at = 0

(***************************************************************************)
(* Claims on the race of push and confirm                                  *)
(***************************************************************************)

\* C22: an accepted confirm stamps every item of the node that is unapplied
\* when it runs, whether a poll has returned it or not, so that the poll
\* after it has no update; and a poll returns unapplied items only, so an
\* item confirmed before any poll returned it is never returned.
C22_ConfirmAcksAll ==
    [][/\ \A id \in NodeIds :
            (resp' = Response("confirm", 200, "", {}) /\ AgentConfirm(id)) =>
                /\ \A r \in Unapplied(db, id) :
                      [r EXCEPT !.applied_at = now \div 1000]
                         \in db'.agent_pending_config
                /\ Unapplied(db', id) = {}
                /\ configGET(rateMap', db', cleanupCounter',
                             Bearer(<<id, ":", "k1">>), id).resp
                      = Response("poll", 200, "", {})
       /\ \A r \in db.agent_pending_config :
             (r.applied_at # NULL /\ r.id \notin hist.polled)
                => r.id \notin hist'.polled]_vars

\* C22 witness: the agent of the only node polled item 1, a push replaced
\* it by item 2, the confirm stamped item 2, which no poll had returned,
\* and the poll after it has no update.
C22_Witness ==
    /\ DOMAIN db.servers = {"n1"}
    /\ hist.polled = {1}
    /\ resp = Response("poll", 200, "", {})
    /\ \E r \in db.agent_pending_config :
          /\ db.agent_pending_config = {r}
          /\ r.id = 2 /\ r.applied_at # NULL
          /\ r.config_key = "log_level" /\ JsonParse(r.config_value) = "INFO"

(***************************************************************************)
(* Claims on repeated acknowledgment                                       *)
(***************************************************************************)

\* C23: acknowledging an alert that is acknowledged leaves the alert as it
\* was, its acknowledgment time included.
C23_AckIdempotent ==
    [][\A alertId \in 1..MaxAlerts :
          AcknowledgeAlert(alertId) =>
             \A a \in db.alerts :
                (a.id = alertId /\ a.is_acknowledged = 1) => a \in db'.alerts]_vars

(***************************************************************************)
(* Claims on batches                                                       *)
(***************************************************************************)

\* The rows a batch wrote.
RowsOf(b) == {r \in db[b.tbl] : b.first <= r.id /\ r.id <= b.last}

\* C24: the rows of one batch of processes or services carry one timestamp.
C24_OneTimestamp ==
    \A b \in hist.batches : \A r, q \in RowsOf(b) : r.timestamp = q.timestamp

\* The batches of a table written for a node, and the last of them.
BatchesOf(tbl, id) ==
    {b \in hist.batches : b.tbl = tbl /\ b.server_id = id}

LastBatch(tbl, id) ==
    CHOOSE b \in BatchesOf(tbl, id) :
        \A c \in BatchesOf(tbl, id) : c.first <= b.first

\* What the query for the current rows of a table returns.
Latest(tbl, id) ==
    IF tbl = "processes" THEN getLatestProcesses(db, id, ProcessLimit)
    ELSE getLatestServices(db, id)

\* C25 as stated: for a node with batches, the current rows are the rows
\* of its last batch.
C25_OneBatch ==
    \A tbl \in {"processes", "services"}, id \in NodeIds :
        BatchesOf(tbl, id) # {} => Latest(tbl, id) = RowsOf(LastBatch(tbl, id))

\* C25, amended: the current rows of a node are its rows at its greatest
\* timestamp: all of them (up to the limit for processes), the last row of
\* its last batch among them; they are the last batch exactly when the rows
\* of that batch carry one timestamp that no earlier batch of the node
\* carries.
C25_LatestTimestamp ==
    \A tbl \in {"processes", "services"}, id \in NodeIds :
        BatchesOf(tbl, id) # {} =>
            LET last == LastBatch(tbl, id)
                own == {r \in db[tbl] : r.server_id = id}
                got == Latest(tbl, id)
            IN  /\ got \subseteq own
                /\ \A r \in got, q \in own :
                      /\ q.timestamp <= r.timestamp
                      /\ q.timestamp = r.timestamp
                            => (q \in got \/ Cardinality(got) = ProcessLimit)
                /\ \E r \in got : r.id = last.last
                /\ got = RowsOf(last)
                      <=> /\ \A r, q \in RowsOf(last) : r.timestamp = q.timestamp
                          /\ \A r \in RowsOf(last), q \in own \ RowsOf(last) :
                                q.timestamp # r.timestamp

\* C25 witness: a node has two batches of services written within one
\* second, and its current services hold rows of both.
C25_Witness ==
    \E id \in NodeIds : \E b, c \in BatchesOf("services", id) :
        /\ b # c
        /\ getLatestServices(db, id) \cap RowsOf(b) # {}
        /\ getLatestServices(db, id) \cap RowsOf(c) # {}
        /\ now = 999

(***************************************************************************)
(* Claims on the live-cleanup counter                                      *)
(***************************************************************************)

\* C26: between requests the counter is within 0..99 and is the number of
\* live samples ever stored modulo 100, and the route has swept once per
\* hundred of them; a step moves the counter only by storing one sample,
\* which takes it to the next value modulo 100, and sweeps exactly when
\* that value is 0; a request answered 429, 401 or 500 stores nothing and
\* leaves the counter.
C26_CleanupTrigger ==
    /\ [](/\ cleanupCounter \in 0..(CLEANUP_EVERY - 1)
          /\ cleanupCounter = db.seq.live_metrics % CLEANUP_EVERY
          /\ hist.sweeps = db.seq.live_metrics \div CLEANUP_EVERY)
    /\ [][/\ db'.seq.live_metrics \in
                {db.seq.live_metrics, db.seq.live_metrics + 1}
          /\ cleanupCounter' =
                IF db'.seq.live_metrics = db.seq.live_metrics
                THEN cleanupCounter
                ELSE (cleanupCounter + 1) % CLEANUP_EVERY
          /\ hist'.sweeps =
                IF db'.seq.live_metrics # db.seq.live_metrics
                   /\ cleanupCounter' = 0
                THEN hist.sweeps + 1 ELSE hist.sweeps
          /\ (resp' # resp /\ resp'.status \in {429, 401, 500})
                => db'.seq.live_metrics = db.seq.live_metrics]_vars

\* C26 witness: the hundredth sample was stored while another request was
\* awaiting its body and at least three others had begun: the counter is back
\* at 0, the sweep has run once and has removed the samples of an hour ago.
C26_Witness ==
    /\ db.seq.live_metrics = CLEANUP_EVERY
    /\ cleanupCounter = 0
    /\ hist.sweeps = 1
    /\ flight # {}
    /\ hist.begun >= 4
    /\ resp = Response("live", 200, "", {})
    /\ Cardinality(db.live_metrics) = 1
    /\ now = 3601000

(***************************************************************************)
(* Claims on the eviction sweep                                            *)
(***************************************************************************)

\* C28: every call returns what the same call returns on the map that no
\* sweep has touched; a sweep removes the keys whose reset time has passed
\* and no other, and no step removes a key whose window is open; the map
\* is the untouched map less keys whose reset time has passed.
C28_SweepInvisible ==
    /\ [](\A ip \in DOMAIN hist.shadow :
             IF ip \in DOMAIN rateMap
             THEN rateMap[ip] = hist.shadow[ip]
             ELSE now > hist.shadow[ip].resetTime)
    /\ [][/\ \A ip \in IPs :
                (hist'.begun # hist.begun /\ SweptCall(ip)) =>
                    LET r == checkRateLimit(hist.shadow, now, ip)
                    IN  /\ rl'.allowed = r.allowed
                        /\ rl'.remaining = r.remaining
          /\ EvictionSweep =>
                DOMAIN rateMap \ DOMAIN rateMap'
                   = {k \in DOMAIN rateMap : now > rateMap[k].resetTime}
          /\ \A k \in DOMAIN rateMap :
                now <= rateMap[k].resetTime =>
                   (k \in DOMAIN rateMap' /\ rateMap'[k].resetTime
                                                = rateMap[k].resetTime)]_vars

\* C28 witness: after a sweep evicted both keys, a call for one of them
\* found no entry and was answered as on the untouched map, where the key
\* is still held with its old window passed; the other key is still out.
C28_Witness ==
    /\ rl.at >= SWEEP_MS /\ rl.prev = 0
    /\ rl.allowed /\ rl.remaining = MAX_REQUESTS - 1
    /\ hist.shadow[rl.ip].count = 1
    /\ \E ip \in IPs : ip \notin DOMAIN rateMap /\ ip \in DOMAIN hist.shadow

(***************************************************************************)
(* Claims on the response of a push                                        *)
(***************************************************************************)

\* C27: the response of an accepted push names every submitted key that was
\* not queued.
C27_ReportsDropped ==
    [][\A id \in RouteIds, config \in QueueConfigs :
          (resp'.ep = "push" /\ resp'.status = 200 /\ Push(id, config)) =>
              \A i \in 1..Len(config) :
                  config[i][1] \notin allowedKeys =>
                      \E e \in resp'.data : e[1] = config[i][1]]_vars

(***************************************************************************)
(* Claims on the secret of a node                                          *)
(***************************************************************************)

\* The rows of nodes a response carries.
ShownRows(r) ==
    IF r.status # 200 THEN {}
    ELSE IF r.ep = "lookup" THEN {e[2] : e \in r.data}
    ELSE IF r.ep = "dashboard" THEN UNION {e[2] : e \in r.data}
    ELSE {}

\* C30: no response other than the register response carries the stored
\* hash of a node's secret, or a value a secret in use verifies against.
C30_SecretNotShown ==
    \A row \in ShownRows(resp) :
        "api_key_hash" \in DOMAIN row =>
            /\ \A id \in DOMAIN db.servers :
                  row.api_key_hash # db.servers[id].api_key_hash
            /\ \A k \in Keys : ~compareSync(k, row.api_key_hash)

(***************************************************************************)
(* Claims on requests in flight while their node is removed                *)
(***************************************************************************)

\* Every row of a table that references a node references an existing one.
NoOrphans ==
    /\ \A tbl \in OwnedTables : \A r \in db[tbl] : HasServer(db, r.server_id)
    /\ \A n \in db.notifications :
          n.alert_id # NULL => \E a \in db.alerts : a.id = n.alert_id

\* The step ends a metrics or live request whose node was removed since the
\* request was authenticated.
LostRace(f) ==
    /\ f \in flight /\ f.ep \in {"metrics", "live"}
    /\ ~HasServer(db, f.serverId)
    /\ flight' = flight \ {f}

\* C29 as stated: no state holds an orphan row, and a request that lost the
\* race ends in a failure result and writes no row.
C29_LoserFails ==
    /\ []NoOrphans
    /\ [][\A f \in flight : LostRace(f) => (resp'.status >= 400 /\ db' = db)]_vars

\* C29: no state holds an orphan row; a request that lost the race writes
\* no row, and ends in the failure result 500 when its body calls for an
\* INSERT (every live sample does; a metrics body does when it has metrics,
\* processes or services), in 200 when it calls for none.
C29_LoserWritesNothing ==
    /\ []NoOrphans
    /\ [][\A f \in flight :
             LostRace(f) =>
                /\ db' = db
                /\ resp'.ep = f.ep
                /\ resp'.status \in {200, 500}
                /\ resp'.status = 200 <=>
                      (/\ f.ep = "metrics"
                       /\ \E body \in MetricsBodies :
                             /\ MetricsEnd(f, body)
                             /\ body.metrics = <<>>
                             /\ body.processes = <<>>
                             /\ body.services = <<>>)]_vars

\* C29 witness: a metrics request of a node that was since removed has been
\* answered 500; the other node is registered and holds rows.
C29_Witness ==
    /\ resp = InternalError("metrics")
    /\ \E id \in db.minted : ~HasServer(db, id)
    /\ \E r \in db.metrics : HasServer(db, r.server_id)
    /\ flight = {}

====
